---------------------------- MODULE Spec2Model ----------------------------
(***************************************************************************)
(* Model of the response-finalization pipeline of the canvas assistant     *)
(* (apps/ai-fullstack/backend/src/agent/graph.py): the turn graph          *)
(* select_role -> kb_retrieve -> direct_answer, the structured decoder,    *)
(* and the post-generation passes of finalize_answer over the batch of     *)
(* tool calls.                                                             *)
(*                                                                         *)
(* Strings.  TLC cannot look inside a string, so every string of the model *)
(* (a label, a prompt, a user message) comes with the set of source        *)
(* keywords that occur in it (Words).  The source's keywords are Chinese   *)
(* or English literals; the Chinese ones are written here in pinyin:       *)
(*   xuxie = "续写"        tuijian = "推荐"       fangxiang = "方向"       *)
(*   wo-xuanze-fangxiang = "我选择方向"           jiyu = "基于"            *)
(*   fenjing = "分镜"      shipin = "视频"        15s-shipin = "15s视频"   *)
(* Labels and node ids are modelled already stripped of outer whitespace   *)
(* (the code compares label.strip() everywhere); "" is an absent or blank  *)
(* value.                                                                  *)
(***************************************************************************)
EXTENDS Naturals, Sequences, FiniteSets

(***************************************************************************)
(* Bounds of the model.                                                    *)
(***************************************************************************)
MaxBatch == 3
MaxCanvas == 2

(***************************************************************************)
(* Keyword occurrence.                                                     *)
(***************************************************************************)
Words(s) ==
  CASE s = "character-A" -> {"character"}
    [] s = "storyboard-S" -> {"storyboard"}
    [] s = "storyboard-S-15sVideo" -> {"storyboard", "15s", "shipin", "15s-shipin"}
    [] s = "X-15sVideo" -> {"15s", "shipin", "15s-shipin"}
    [] s = "p-3x3" -> {"3x3"}
    [] s = "xuxie" -> {"xuxie"}
    [] s = "jiyu" -> {"jiyu"}
    [] s = "xuxie-tuijian" -> {"xuxie", "tuijian"}
    [] s = "wo-xuanze-fangxiang-A" -> {"wo-xuanze-fangxiang", "fangxiang"}
    [] OTHER -> {}

AnyIn(kws, s) == kws \cap Words(s) # {}

\* ("九宫格", "3x3", "分镜", "storyboard"): the storyboard-grid hint of a createNode
StoryboardHintKws == {"jiugongge", "3x3", "fenjing", "storyboard"}
\* ("分镜", "九宫格", "storyboard"): storyboard keywords looked for in a label alone
StoryboardLabelKws == {"fenjing", "jiugongge", "storyboard"}

HintIsStoryboard(label, prompt) ==
  AnyIn(StoryboardHintKws, label) \/ AnyIn(StoryboardHintKws, prompt)

(***************************************************************************)
(* Tool calls.  A call is a record with the same fields whatever its       *)
(* operation; the fields its operation does not use are "".  origin and    *)
(* idx stand for the call id: a call of the generator has origin "gen" and *)
(* its position in the generator's output as idx; a call made by a pass    *)
(* has the origin of its id prefix (auto_ref_, auto_create_video_,         *)
(* auto_connect_, auto_run_) and idx 0, the rest of its id being its       *)
(* arguments.  raw is TRUE when the argument string was not valid JSON and *)
(* the stream reducer passed it through as a string.                       *)
(***************************************************************************)
Call(origin, idx, name, type, label, kind, prompt, structured, src, tgt, nodeId, raw) ==
  [origin |-> origin, idx |-> idx, name |-> name, type |-> type, label |-> label,
   kind |-> kind, prompt |-> prompt, structured |-> structured,
   src |-> src, tgt |-> tgt, nodeId |-> nodeId, raw |-> raw]

CreateNode(type, label, kind, prompt, structured) ==
  Call("gen", 0, "createNode", type, label, kind, prompt, structured, "", "", "", FALSE)
RunNode(nodeId) ==
  Call("gen", 0, "runNode", "", "", "", "", FALSE, "", "", nodeId, FALSE)
ConnectNodes(src, tgt) ==
  Call("gen", 0, "connectNodes", "", "", "", "", FALSE, src, tgt, "", FALSE)
UpdateNode(nodeId) ==
  Call("gen", 0, "updateNode", "", "", "", "", FALSE, "", "", nodeId, FALSE)
RawCall(name) ==
  Call("gen", 0, name, "", "", "", "", FALSE, "", "", "", TRUE)

IsCreate(c) == c.name = "createNode"
IsRun(c) == c.name = "runNode"
IsConnect(c) == c.name = "connectNodes"

(***************************************************************************)
(* Sequence helpers.                                                       *)
(***************************************************************************)
\* list[at:at] = xs and list.insert(at, x), with at a 0-based Python index
InsertAt(s, at, xs) ==
  LET k == IF at > Len(s) THEN Len(s) ELSE at
  IN SubSeq(s, 1, k) \o xs \o SubSeq(s, k + 1, Len(s))

Indices(s) == 1..Len(s)

\* the least element of a non-empty set of numbers
Least(S) == CHOOSE x \in S : \A y \in S : x <= y


(***************************************************************************)
(* Canvas snapshot: a sequence of nodes [label, kind, status, imageUrl],   *)
(* in canvas insertion order.                                              *)
(***************************************************************************)
Node(label, kind, status, imageUrl) ==
  [label |-> label, kind |-> kind, status |-> status, imageUrl |-> imageUrl]

ImageKinds == {"image", "textToImage", "mosaic"}

\* _canvas_labels_from_context
CanvasLabels(canvas) ==
  {canvas[i].label : i \in {j \in Indices(canvas) : canvas[j].label # ""}}

\* the score of a reference candidate: +3 for a character/design label, +2 for
\* one of the mascot names
RefScore(label) ==
  (IF AnyIn({"juese", "sheding", "lihui", "zhushijue", "character", "design"}, label)
     THEN 3 ELSE 0)
  + (IF AnyIn({"fox", "bunny", "rabbit", "huli", "tuzi"}, label) THEN 2 ELSE 0)

\* a variant that does not look at the status of the node
RefEligibleAnyStatus(n, storyboard_label) ==
  /\ n.label # ""
  /\ n.label # storyboard_label
  /\ n.kind \in ImageKinds
  /\ n.imageUrl # ""
  /\ ~AnyIn({"fenjing", "jiugongge", "storyboard", "shipin", "15s-shipin"}, n.label)

RefEligible(n, storyboard_label) ==
  /\ n.label # ""
  /\ n.label # storyboard_label
  /\ n.kind \in ImageKinds
  /\ n.status = "success"
  /\ n.imageUrl # ""
  /\ ~AnyIn({"fenjing", "jiugongge", "storyboard", "shipin", "15s-shipin"}, n.label)

\* a variant that ranks the earlier of two nodes with the same score first
RefBestEarliest(canvas, S) ==
  CHOOSE i \in S : \A j \in S :
     \/ RefScore(canvas[j].label) < RefScore(canvas[i].label)
     \/ RefScore(canvas[j].label) = RefScore(canvas[i].label) /\ i <= j

\* candidates.sort(key=(score, idx), reverse=True): the index whose (score, idx)
\* is largest among S
RefBest(canvas, S) ==
  CHOOSE i \in S : \A j \in S :
     \/ RefScore(canvas[j].label) < RefScore(canvas[i].label)
     \/ RefScore(canvas[j].label) = RefScore(canvas[i].label) /\ j <= i

RECURSIVE RefRanked(_, _)
RefRanked(canvas, S) ==
  IF S = {} THEN <<>>
  ELSE LET b == RefBest(canvas, S)
       IN <<canvas[b].label>> \o RefRanked(canvas, S \ {b})

RefPickCount == 3

\* _pick_reference_image_labels_from_canvas_context
PickReferenceImageLabels(canvas, storyboard_label) ==
  LET ranked == RefRanked(canvas,
                  {i \in Indices(canvas) : RefEligible(canvas[i], storyboard_label)})
  IN SubSeq(ranked, 1, IF Len(ranked) < RefPickCount THEN Len(ranked) ELSE RefPickCount)

LatestEligible(n) ==
  /\ n.kind \in ImageKinds
  /\ n.status = "success"
  /\ n.label # ""
  /\ ~AnyIn(StoryboardLabelKws, n.label)
  /\ n.imageUrl # ""

\* _pick_latest_success_image_label; "" stands for None
PickLatestSuccessImageLabel(canvas) ==
  LET S == {i \in Indices(canvas) : LatestEligible(canvas[i])}
  IN IF S = {} THEN "" ELSE canvas[CHOOSE i \in S : \A j \in S : j <= i].label

(***************************************************************************)
(* Intent of the latest user message.                                      *)
(***************************************************************************)
IsStorySuggestionRequest(user) ==
  /\ AnyIn({"xuxie", "houxu-juqing", "jiexialai", "xuzuo"}, user)
  /\ AnyIn({"tuijian", "fangxiang", "linggan", "zenme-xie"}, user)
  /\ ~AnyIn({"jiugongge", "fenjing", "gushiban", "storyboard", "15s"}, user)

IsContinuationStep(user) ==
  /\ AnyIn({"wo-xuanze-fangxiang", "zidingyi-xuxie", "xuxie"}, user)
  /\ ~IsStorySuggestionRequest(user)

ReferenceIntent(user) ==
  AnyIn({"jiyu", "tongkuan", "tongfengge", "yanyong", "xuxie", "yanzhan", "bianti",
         "cankao", "baochi-yizhi"}, user)

(***************************************************************************)
(* Result of a pass: the batch, whether the pass raised, and the quick     *)
(* replies and reply text as the pass leaves them.  Every pass works on    *)
(* the one list tool_calls_payload, so a pass that raises leaves the list  *)
(* as it was when the exception occurred.                                  *)
(***************************************************************************)
R(calls, err, qr, text) == [calls |-> calls, err |-> err, qr |-> qr, text |-> text]

Range(s) == {s[i] : i \in Indices(s)}

\* new-character gating (continuation turn, new character image and storyboard
\* image created together): keep the character's createNode and runNode only
NewCharacterLabels(calls, canvas) ==
  LET created == {c \in Range(calls) : IsCreate(c) /\ c.type = "image" /\ c.label # ""}
  IN {l \in {c.label : c \in created} :
        /\ AnyIn({"juese", "character"}, l)
        /\ l \notin CanvasLabels(canvas)
        /\ ~AnyIn(StoryboardLabelKws, l)}

HasStoryboardCreate(calls) ==
  \E i \in Indices(calls) :
     IsCreate(calls[i]) /\ calls[i].type = "image"
       /\ HintIsStoryboard(calls[i].label, calls[i].prompt)

NewCharacterGateFires(calls, canvas, user) ==
  /\ IsContinuationStep(user)
  /\ NewCharacterLabels(calls, canvas) # {}
  /\ HasStoryboardCreate(calls)

NewCharacterGate(calls, canvas, user, qr, text) ==
  IF \E i \in Indices(calls) : IsCreate(calls[i]) /\ calls[i].raw
    THEN R(calls, TRUE, qr, text)
  ELSE IF ~NewCharacterGateFires(calls, canvas, user)
    THEN R(calls, FALSE, qr, text)
  ELSE IF \E i \in Indices(calls) : IsRun(calls[i]) /\ calls[i].raw
    THEN R(calls, TRUE, qr, text)
  ELSE LET keep_set == NewCharacterLabels(calls, canvas)
           Kept(c) == \/ IsCreate(c) /\ c.type = "image" /\ c.label \in keep_set
                      \/ IsRun(c) /\ c.nodeId \in keep_set
       IN R(SelectSeq(calls, Kept), FALSE, "character",
            [body |-> "character-msg", block |-> "none"])

\* a variant that rewrites the type and leaves config.kind as it was
NormalizeImageAliasTypeOnly(calls) ==
  [i \in Indices(calls) |->
     IF IsCreate(calls[i]) /\ calls[i].type = "textToImage"
       THEN [calls[i] EXCEPT !.type = "image"]
       ELSE calls[i]]

\* textToImage is rewritten to image, in type and in config.kind
NormalizeImageAlias(calls) ==
  [i \in Indices(calls) |->
     IF IsCreate(calls[i]) /\ calls[i].type = "textToImage"
       THEN [calls[i] EXCEPT !.type = "image",
                             !.kind = IF @ = "textToImage" THEN "image" ELSE @]
       ELSE calls[i]]

\* a variant that rebuilds the createNode it gives a prompt to, without the id of
\* the generator's call
NormalizeComposeVideoRebuilds(calls) ==
  [i \in Indices(calls) |->
     IF IsCreate(calls[i]) /\ calls[i].type = "composeVideo"
          /\ calls[i].prompt = "" /\ calls[i].structured
       THEN CreateNode("composeVideo", calls[i].label, calls[i].kind, "p-synth", TRUE)
       ELSE calls[i]]

\* _composevideo_prompt_from_structured_config always starts its output with a
\* header line, so a config with a shot or character list gets a prompt
NormalizeComposeVideo(calls) ==
  [i \in Indices(calls) |->
     IF IsCreate(calls[i]) /\ calls[i].type = "composeVideo"
          /\ calls[i].prompt = "" /\ calls[i].structured
       THEN [calls[i] EXCEPT !.prompt = "p-synth"]
       ELSE calls[i]]

(***************************************************************************)
(* Storyboard workflow.                                                    *)
(***************************************************************************)
HasComposeVideo(calls) ==
  \E i \in Indices(calls) : IsCreate(calls[i]) /\ calls[i].type = "composeVideo"

\* position of the first createNode of an image whose label or prompt carries a
\* storyboard keyword (the loop breaks there); 0 when there is none
StoryboardIndex(calls) ==
  LET S == {i \in Indices(calls) :
              IsCreate(calls[i]) /\ calls[i].type = "image"
                /\ HintIsStoryboard(calls[i].label, calls[i].prompt)}
  IN IF S = {} THEN 0 ELSE Least(S)

\* storyboard_image_label; "" stands for None
StoryboardImageLabel(calls) ==
  IF StoryboardIndex(calls) = 0 THEN "" ELSE calls[StoryboardIndex(calls)].label

\* video_label: label.replace("九宫格分镜", "15s视频").replace("分镜", "15s视频"),
\* or label + "-15s视频" when that changed nothing (no label of the model holds
\* one of the two replaced words)
VideoLabelOf(label) ==
  CASE label = "storyboard-S" -> "storyboard-S-15sVideo"
    [] label = "X" -> "X-15sVideo"
    [] label = "character-A" -> "character-A-15sVideo"
    [] OTHER -> "V-15sVideo"

\* the (source, target) pairs of the connectNodes calls of the batch
ExistingPairs(calls) ==
  {<<c.src, c.tgt>> : c \in {d \in Range(calls) : IsConnect(d) /\ d.src # "" /\ d.tgt # ""}}

AutoRef(src, tgt) ==
  Call("auto_ref", 0, "connectNodes", "", "", "", "", FALSE, src, tgt, "", FALSE)

AutoRefs(refs, tgt) == [i \in Indices(refs) |-> AutoRef(refs[i], tgt)]

\* storyboard reference linking: connect up to 3 canvas images into the storyboard
\* node, before its runNode or at the end of the batch
LinkStoryboardReferences(calls, canvas) ==
  LET sb == StoryboardImageLabel(calls)
      refs == PickReferenceImageLabels(canvas, sb)
      runs == {i \in Indices(calls) :
                 IsRun(calls[i]) /\ ~calls[i].raw /\ calls[i].nodeId = sb}
      run_idx == IF runs = {} THEN 0 ELSE Least(runs)
      scanned == IF run_idx = 0 THEN Len(calls) ELSE run_idx - 1
      creates == {i \in 1..scanned : IsCreate(calls[i]) /\ calls[i].label = sb}
      create_idx == IF creates = {} THEN 0
                    ELSE CHOOSE i \in creates : \A j \in creates : j <= i
      at0 == IF run_idx # 0 THEN run_idx - 1 ELSE Len(calls)
      insert_at == IF create_idx # 0 /\ at0 <= create_idx - 1 THEN create_idx ELSE at0
      connect_calls ==
        AutoRefs(SelectSeq(refs, LAMBDA l : <<l, sb>> \notin ExistingPairs(calls)), sb)
  IN IF sb = "" \/ refs = <<>>
       THEN [calls |-> calls, err |-> FALSE]
     ELSE IF \/ \E i \in Indices(calls) : IsConnect(calls[i]) /\ calls[i].raw
             \/ \E i \in 1..scanned : IsRun(calls[i]) /\ calls[i].raw
       THEN [calls |-> calls, err |-> TRUE]
     ELSE [calls |-> InsertAt(calls, insert_at, connect_calls), err |-> FALSE]

AutoCreateVideo(video_label) ==
  Call("auto_create_video", 0, "createNode", "composeVideo", video_label,
       "composeVideo", "p-auto-video", FALSE, "", "", "", FALSE)

AutoConnect(src, tgt) ==
  Call("auto_connect", 0, "connectNodes", "", "", "", "", FALSE, src, tgt, "", FALSE)

\* a variant that appends the connectNodes before the createNode of the video
AutoChainVideoConnectFirst(calls) ==
  LET sb == StoryboardImageLabel(calls)
  IN IF sb # "" /\ ~HasComposeVideo(calls)
       THEN calls \o <<AutoConnect(sb, VideoLabelOf(sb)), AutoCreateVideo(VideoLabelOf(sb))>>
       ELSE calls

\* storyboard-to-video auto-chaining; has_compose_video and the storyboard label
\* were computed before reference linking, which adds no createNode
AutoChainVideo(calls) ==
  LET sb == StoryboardImageLabel(calls)
  IN IF sb # "" /\ ~HasComposeVideo(calls)
       THEN calls \o <<AutoCreateVideo(VideoLabelOf(sb)), AutoConnect(sb, VideoLabelOf(sb))>>
       ELSE calls

(***************************************************************************)
(* General reference continuity.  The loop walks a copy of the batch made  *)
(* before the loop (snapshot) and inserts into the batch itself (payload), *)
(* at a position computed from the index in the copy.                      *)
(***************************************************************************)
\* a variant that also connects into a node that already has an inbound connect
NeedsUpstreamIgnoringInbound(c, upstream, targets) ==
  /\ IsCreate(c)
  /\ c.type = "image"
  /\ c.label # ""
  /\ c.label # upstream
  /\ ~HintIsStoryboard(c.label, c.prompt)

NeedsUpstream(c, upstream, targets) ==
  /\ IsCreate(c)
  /\ c.type = "image"
  /\ c.label # ""
  /\ c.label # upstream
  /\ ~HintIsStoryboard(c.label, c.prompt)
  /\ c.label \notin targets

RECURSIVE ContinuityLoop(_, _, _, _, _)
ContinuityLoop(snapshot, i, payload, targets, upstream) ==
  IF i > Len(snapshot) THEN [calls |-> payload, err |-> FALSE]
  ELSE IF ~NeedsUpstream(snapshot[i], upstream, targets)
    THEN ContinuityLoop(snapshot, i + 1, payload, targets, upstream)
  ELSE LET target == snapshot[i].label
           \* for j in range(idx + 1, len(payload)): the first runNode that either
           \* has unparsed arguments (the lookup raises) or targets the node
           hits == {p \in (i + 1)..Len(payload) :
                      IsRun(payload[p]) /\ (payload[p].raw \/ payload[p].nodeId = target)}
           hit == IF hits = {} THEN 0 ELSE Least(hits)
           insert_at == IF hit = 0 THEN i ELSE hit - 1
       IN IF hit # 0 /\ payload[hit].raw
            THEN [calls |-> payload, err |-> TRUE]
            ELSE ContinuityLoop(snapshot, i + 1,
                                InsertAt(payload, insert_at, <<AutoRef(upstream, target)>>),
                                targets \cup {target}, upstream)

LinkReferenceContinuity(calls, canvas, user) ==
  LET upstream == PickLatestSuccessImageLabel(canvas)
  IN IF ~ReferenceIntent(user) \/ upstream = ""
       THEN [calls |-> calls, err |-> FALSE]
     ELSE IF \E i \in Indices(calls) : IsConnect(calls[i]) /\ calls[i].raw
       THEN [calls |-> calls, err |-> TRUE]
     ELSE ContinuityLoop(calls, 1, calls,
                         {p[2] : p \in ExistingPairs(calls)}, upstream)

(***************************************************************************)
(* Action sequencing: no premature run of a video, auto-run of images.     *)
(***************************************************************************)
IsImageFamilyCreate(c) ==
  IsCreate(c) /\ c.type \in {"image", "textToImage"} /\ c.label # ""

CreatedImageLabels(calls) == {c.label : c \in {d \in Range(calls) : IsImageFamilyCreate(d)}}

CreatedVideoLabels(calls) ==
  {c.label : c \in {d \in Range(calls) :
                      IsCreate(d) /\ d.type = "composeVideo" /\ d.label # ""}}

HasRawRun(calls) == \E i \in Indices(calls) : IsRun(calls[i]) /\ calls[i].raw

\* a variant that defers the runs of the created videos to the end of the batch
\* instead of removing them
DropVideoRunsDeferred(calls) ==
  IF CreatedImageLabels(calls) = {} \/ CreatedVideoLabels(calls) = {}
    THEN [calls |-> calls, err |-> FALSE]
  ELSE IF HasRawRun(calls)
    THEN [calls |-> calls, err |-> TRUE]
  ELSE [calls |-> SelectSeq(calls, LAMBDA c :
                    ~(IsRun(c) /\ c.nodeId \in CreatedVideoLabels(calls)))
                  \o SelectSeq(calls, LAMBDA c :
                    IsRun(c) /\ c.nodeId \in CreatedVideoLabels(calls)),
        err |-> FALSE]

DropVideoRuns(calls) ==
  IF CreatedImageLabels(calls) = {} \/ CreatedVideoLabels(calls) = {}
    THEN [calls |-> calls, err |-> FALSE]
  ELSE IF HasRawRun(calls)
    THEN [calls |-> calls, err |-> TRUE]
  ELSE [calls |-> SelectSeq(calls, LAMBDA c :
                    ~(IsRun(c) /\ c.nodeId \in CreatedVideoLabels(calls))),
        err |-> FALSE]

AutoRun(label) ==
  Call("auto_run", 0, "runNode", "", "", "", "", FALSE, "", "", label, FALSE)

AlreadyRunning(calls) ==
  {c.nodeId : c \in {d \in Range(calls) : IsRun(d) /\ d.nodeId # ""}}

\* a variant that does not consult already_running
AutoRunCreatedUnchecked(calls) ==
  LET created == SelectSeq(calls, IsImageFamilyCreate)
  IN IF HasRawRun(calls)
       THEN [calls |-> calls, err |-> TRUE]
       ELSE [calls |-> calls \o [i \in Indices(created) |-> AutoRun(created[i].label)],
             err |-> FALSE]

\* one runNode is appended per createNode of created_labels whose label is not in
\* already_running; already_running is not extended by the appended calls
AutoRunCreated(calls) ==
  LET created == SelectSeq(calls, IsImageFamilyCreate)
      missing == SelectSeq(created, LAMBDA c : c.label \notin AlreadyRunning(calls))
  IN IF HasRawRun(calls)
       THEN [calls |-> calls, err |-> TRUE]
       ELSE [calls |-> calls \o [i \in Indices(missing) |-> AutoRun(missing[i].label)],
             err |-> FALSE]

(***************************************************************************)
(* The post-generation passes of finalize_answer, in the order of the      *)
(* code.  A pass that raises ends the chain: the batch stays as the passes *)
(* before it left it.                                                      *)
(***************************************************************************)
\* where a pass raised, the batch is the one that pass was working on; the quick
\* replies and the text are those the new-character gate left
AfterPasses(a, g) == R(a.calls, a.err, g.qr, g.text)

AfterDrop(d, g) ==
  IF d.err THEN AfterPasses(d, g) ELSE AfterPasses(AutoRunCreated(d.calls), g)

AfterContinuity(c, g) ==
  IF c.err THEN AfterPasses(c, g) ELSE AfterDrop(DropVideoRuns(c.calls), g)

AfterLinking(l, g, canvas, user) ==
  IF l.err THEN AfterPasses(l, g)
  ELSE AfterContinuity(LinkReferenceContinuity(AutoChainVideo(l.calls), canvas, user), g)

AfterGate(g, canvas, user) ==
  IF g.err THEN g
  ELSE AfterLinking(
         LinkStoryboardReferences(NormalizeComposeVideo(NormalizeImageAlias(g.calls)),
                                  canvas),
         g, canvas, user)

PostGeneration(calls, canvas, user, qr, text) ==
  AfterGate(NewCharacterGate(calls, canvas, user, qr, text), canvas, user)

(***************************************************************************)
(* Reply text: body is what the text says apart from an actions block      *)
(* ("" when nothing), block is the state of its ```tapcanvas_actions block:*)
(* "none", "valid" (a complete block with usable entries), "invalid" (a    *)
(* complete block whose payload is not usable JSON) or "open" (the marker  *)
(* without a closing fence).                                               *)
(***************************************************************************)
Text(body, block) == [body |-> body, block |-> block]

IsBlank(text) == text.body = "" /\ text.block = "none"

HasActionsMarker(text) == text.block # "none"

\* _extract_tapcanvas_actions: (cleaned text, quick replies or None)
ExtractTapcanvasActions(text) ==
  CASE text.block = "valid" -> [text |-> Text(text.body, "none"), qr |-> "actions"]
    [] text.block = "invalid" -> [text |-> Text(text.body, "none"), qr |-> "none"]
    [] OTHER -> [text |-> text, qr |-> "none"]

\* a variant that offers the directions and keeps the model's calls
StorySuggestionStepKeepsCalls(calls, user, text) ==
  IF IsStorySuggestionRequest(user) /\ ~HasActionsMarker(text)
    THEN R(calls, FALSE, "directions", Text("directions-msg", "none"))
    ELSE R(calls, FALSE, "none", text)

\* the open-ended continuation request: the model's calls are dropped and four
\* directions are offered
StorySuggestionStep(calls, user, text) ==
  IF IsStorySuggestionRequest(user) /\ ~HasActionsMarker(text)
    THEN R(<<>>, FALSE, "directions", Text("directions-msg", "none"))
    ELSE R(calls, FALSE, "none", text)

\* a variant of the gate that offers the quick replies but keeps the batch
SupervisorGateKeepsBatch(r, allow) ==
  IF allow = "False"
    THEN R(r.calls, FALSE,
           IF r.qr = "none" THEN "gate" ELSE r.qr,
           IF IsBlank(r.text) THEN Text("holding-msg", "none") ELSE r.text)
    ELSE r

\* the supervisor gate on allow_canvas_tools
SupervisorGate(r, allow) ==
  IF allow = "False"
    THEN R(<<>>, FALSE,
           IF r.qr = "none" THEN "gate" ELSE r.qr,
           IF IsBlank(r.text) THEN Text("holding-msg", "none") ELSE r.text)
    ELSE r

\* the part of finalize_answer after the provider branch: fallback text, the
\* extraction of the actions block, and the message that is returned
AssembleResult(calls, qr, text, llm_error) ==
  LET content == IF IsBlank(text) /\ calls # <<>> THEN Text("fallback-summary", "none")
                 ELSE text
      ex == ExtractTapcanvasActions(content)
  IN [tool_calls |-> calls,
      quick_replies |-> IF IsBlank(content) THEN qr ELSE ex.qr,
      content |-> IF IsBlank(content) THEN content ELSE ex.text,
      llm_error |-> llm_error]

\* the passes run only on a non-empty batch (if tool_calls_payload:)
RunPasses(s, canvas, user) ==
  IF s.calls = <<>> THEN s ELSE PostGeneration(s.calls, canvas, user, s.qr, s.text)

\* the end of the try block and its handler for an exception of the passes
AfterTry(p) ==
  IF p.err
    THEN AssembleResult(p.calls, p.qr, Text("err-runtime", "none"), "Exception")
    ELSE AssembleResult(p.calls, p.qr, p.text, "none")

\* finalize_answer on the OpenAI path
FinalizeOpenAI(key, outcome, calls, text, canvas, user, allow) ==
  IF ~key
    THEN AssembleResult(<<>>, "none", Text("err-config", "none"), "ValueError")
  ELSE IF outcome = "raise"
    THEN AssembleResult(<<>>, "none", Text("err-provider", "none"), "OpenAIError")
  ELSE AfterTry(RunPasses(SupervisorGate(StorySuggestionStep(calls, user, text), allow),
                          canvas, user))

(***************************************************************************)
(* Role registry (agent/roles.py): a fixed mapping with a default role.    *)
(***************************************************************************)
DEFAULT_ROLE_ID == "default-role"

\* role_map(): the roles in the order the mapping iterates them
RoleRegistry == <<DEFAULT_ROLE_ID, "art_director", "storyteller">>

RoleIds == {RoleRegistry[i] : i \in 1..Len(RoleRegistry)}

\* the role whose display name occurs in the text, "" when no name does
RoleNamed(text) == IF text = "the Art Director" THEN "art_director" ELSE ""

\* normalize_role_id: a known id resolves to itself, a text holding the display
\* name of a role to that role, anything else to the default
NormalizeRoleId(role_id) ==
  CASE role_id \in RoleIds -> role_id
    [] RoleNamed(role_id) # "" -> RoleNamed(role_id)
    [] OTHER -> DEFAULT_ROLE_ID

\* a variant that returns the id as the model supplied it
ResolveRoleUnchecked(role_id) == role_id

\* _resolve_role
ResolveRole(role_id) == NormalizeRoleId(role_id)

(***************************************************************************)
(* Structured decoder.  A provider behaviour is either "raise" (the        *)
(* request raises) or the text collected from the stream; a stream that    *)
(* raises midway is swallowed by _collect_stream_text and yields the text  *)
(* collected so far ("" or a truncated, unparseable text).                 *)
(***************************************************************************)
Schemas == {"SearchQueryList", "Reflection", "RoleDecision"}

ProviderTexts ==
  {"", "garbage", "prose-art_director", "prose-Storyteller",
   "prose-Storyteller-art_director", "prose-Storyteller-Art-Director",
   "json-queries", "json-reflection",
   "json-role-allow", "json-role-deny", "json-role-unknown", "json-role-name",
   "json-role-no-allow"}

ProviderBehaviours == {"raise"} \cup ProviderTexts

\* schema_model.model_validate_json(text) succeeds
ParsesAs(schema, text) ==
  \/ schema = "SearchQueryList" /\ text = "json-queries"
  \/ schema = "Reflection" /\ text = "json-reflection"
  \/ schema = "RoleDecision"
       /\ text \in {"json-role-allow", "json-role-deny", "json-role-unknown",
                    "json-role-name", "json-role-no-allow"}

Decoded(raised, schema, origin, role_id, allow, reason, query, requests) ==
  [raised |-> raised, schema |-> schema, origin |-> origin, role_id |-> role_id,
   allow |-> allow, reason |-> reason, query |-> query, requests |-> requests]

\* the value model_validate_json builds from a text that parses
ParsedValue(schema, text, requests) ==
  CASE text = "json-role-allow" ->
         Decoded(FALSE, schema, "parsed", "art_director", TRUE, "model", "", requests)
    [] text = "json-role-deny" ->
         Decoded(FALSE, schema, "parsed", "art_director", FALSE, "model", "", requests)
    [] text = "json-role-unknown" ->
         Decoded(FALSE, schema, "parsed", "wizard", TRUE, "model", "", requests)
    \* a decision without allow_canvas_tools: the field's default is True
    [] text = "json-role-no-allow" ->
         Decoded(FALSE, schema, "parsed", "art_director", TRUE, "model", "", requests)
    [] text = "json-role-name" ->
         Decoded(FALSE, schema, "parsed", "the Art Director", TRUE, "model", "", requests)
    [] text = "json-queries" ->
         Decoded(FALSE, schema, "parsed", "", TRUE, "model", "q-model", requests)
    [] OTHER -> Decoded(FALSE, schema, "parsed", "", TRUE, "model", "", requests)

\* the first role of the registry whose id or name occurs in the raw text, the
\* default role's id when none does (chosen_id or DEFAULT_ROLE_ID)
\* the roles whose id occurs in the lower-cased text (rid in raw_lower)
RoleIdsIn(text) ==
  IF text \in {"prose-art_director", "prose-Storyteller-art_director"}
    THEN {"art_director"} ELSE {}

\* the roles whose display name occurs in it (role["name"].lower() in raw_lower)
RoleNamesIn(text) ==
  CASE text \in {"prose-Storyteller", "prose-Storyteller-art_director"} -> {"storyteller"}
    [] text = "prose-Storyteller-Art-Director" -> {"storyteller", "art_director"}
    [] OTHER -> {}

\* a variant that takes the last role of the registry the text mentions
MentionedRoleLast(text) ==
  LET hits == {i \in 1..Len(RoleRegistry) :
                 RoleRegistry[i] \in RoleIdsIn(text) \cup RoleNamesIn(text)}
  IN IF hits = {} THEN DEFAULT_ROLE_ID
     ELSE RoleRegistry[CHOOSE i \in hits : \A j \in hits : j <= i]

MentionedRole(text) ==
  LET hits == {i \in 1..Len(RoleRegistry) :
                 RoleRegistry[i] \in RoleIdsIn(text) \cup RoleNamesIn(text)}
  IN IF hits = {} THEN DEFAULT_ROLE_ID ELSE RoleRegistry[Least(hits)]

\* a variant without the default of the Reflection schema
FallbackValueNoReflection(prompt, schema, text, first_exc, requests) ==
  IF schema = "SearchQueryList"
    THEN Decoded(FALSE, schema, "fallback", "", TRUE,
                 IF first_exc /\ text = "" THEN "fallback-error" ELSE "fallback-parse",
                 prompt, requests)
  ELSE IF schema = "RoleDecision"
    THEN Decoded(FALSE, schema, "fallback", NormalizeRoleId(MentionedRole(text)), TRUE,
                 IF first_exc /\ text = "" THEN "fallback-error" ELSE "fallback-parse",
                 "", requests)
  ELSE Decoded(TRUE, "None", "raise", "", TRUE, "", "", requests)

\* the schema-specific constructor used when the text does not parse
FallbackValue(prompt, schema, text, first_exc, requests) ==
  IF schema = "SearchQueryList"
    THEN Decoded(FALSE, schema, "fallback", "", TRUE,
                 IF first_exc /\ text = "" THEN "fallback-error" ELSE "fallback-parse",
                 prompt, requests)
  ELSE IF schema = "Reflection"
    THEN Decoded(FALSE, schema, "fallback", "", TRUE, "", "", requests)
  ELSE IF schema = "RoleDecision"
    THEN Decoded(FALSE, schema, "fallback", NormalizeRoleId(MentionedRole(text)), TRUE,
                 IF first_exc /\ text = "" THEN "fallback-error" ELSE "fallback-parse",
                 "", requests)
  ELSE Decoded(TRUE, "None", "raise", "", TRUE, "", "", requests)

\* _call_openai_structured
CallOpenAIStructured(prompt, schema, key, r1, r2) ==
  LET first_exc == ~key \/ r1 = "raise"
      text == IF ~first_exc THEN r1
              ELSE IF ~key \/ r2 = "raise" THEN "" ELSE r2
      requests == IF ~key THEN 0 ELSE IF r1 = "raise" THEN 2 ELSE 1
  IN IF ParsesAs(schema, text)
       THEN ParsedValue(schema, text, requests)
       ELSE FallbackValue(prompt, schema, text, first_exc, requests)

\* the behaviours of the requests the decoder made, in order
ProviderLog(key, r1, r2) ==
  IF ~key THEN <<>> ELSE IF r1 = "raise" THEN <<r1, r2>> ELSE <<r1>>

(***************************************************************************)
(* Inputs of a turn.                                                       *)
(***************************************************************************)
\* the tool calls the generator may propose
GenCalls ==
  {CreateNode("image", "X", "image", "p", FALSE),
   CreateNode("image", "character-A", "image", "p", FALSE),
   CreateNode("image", "storyboard-S", "image", "p", FALSE),
   CreateNode("image", "", "image", "p", FALSE),
   CreateNode("textToImage", "X", "textToImage", "p", FALSE),
   CreateNode("textToImage", "character-A", "textToImage", "p", FALSE),
   CreateNode("image", "character-A", "image", "p-3x3", FALSE),
   CreateNode("image", "", "image", "p-3x3", FALSE),
   CreateNode("composeVideo", "V", "composeVideo", "p", FALSE),
   CreateNode("composeVideo", "X", "composeVideo", "", TRUE),
   RunNode("X"), RunNode("storyboard-S"), RunNode("V"),
   ConnectNodes("character-A", "storyboard-S"),
   ConnectNodes("storyboard-S", "storyboard-S-15sVideo"),
   UpdateNode("X"),
   RawCall("runNode"), RawCall("createNode")}

\* the call id of a generator call is its position in the generator's output
WithIdx(s) == [i \in Indices(s) |-> [s[i] EXCEPT !.idx = i]]

Batches(n) == {WithIdx(s) : s \in UNION {[1..k -> GenCalls] : k \in 0..n}}

CanvasNodes ==
  {Node("character-A", "image", "success", "url"),
   Node("U", "image", "success", "url")}

Canvases == UNION {[1..k -> CanvasNodes] : k \in 0..MaxCanvas}

\* latest user messages: no keyword; continuation ("续写"); reference ("基于");
\* open-ended continuation request ("续写" and "推荐")
UserTexts == {"hello", "xuxie", "jiyu", "xuxie-tuijian"}

GenTexts == {Text("plain", "none"), Text("", "none"), Text("plain", "valid")}

(***************************************************************************)
(* State of a turn.                                                        *)
(***************************************************************************)
VARIABLES
  pc,                 \* the node of the graph that runs next, "END" or "aborted"
  llm_provider,       \* configurable.llm_provider
  api_key,            \* whether the key of that provider is set
  canvas_context,     \* state["canvas_context"]
  last_user_text,     \* the latest user message of state["messages"]
  active_role,        \* state["active_role"]
  allow_canvas_tools, \* state["allow_canvas_tools"]: "None", "True" or "False"
  proposed,           \* the tool calls collected from the generator's stream
  gen_text,           \* the text collected from the generator's stream
  tool_calls,         \* additional_kwargs["tool_calls"] of the final message
  quick_replies,      \* additional_kwargs["quick_replies"] of the final message
  content,            \* content of the final message
  llm_error,          \* additional_kwargs["llm_error"] of the final message
  results,            \* number of final messages the turn has produced
  gen_requests,       \* number of requests the answer step has sent to the provider
  decode_prompt,      \* the prompt of the last structured decode
  decode_schema,      \* the schema it asked for
  provider_log,       \* what the provider did on each request of that decode
  decoded,            \* the value the decode returned
  collector,          \* the stream collector that runs, "none" outside a call
  stream,             \* the chunks of the stream
  read,               \* the number of chunks the loop has taken from it
  handle,             \* the stream handle: "open", "drained", "failed", "none"
  tool_calls_by_id,   \* the call records, in the order their keys were inserted
  alias_to_call_id,   \* the pairs <<alias, call id>> of the alias map
  parts,              \* the text parts collected
  sources_gathered,   \* state["sources_gathered"]
  rag_response,       \* what the retrieval request of kb_retrieve comes back with
  web_research_result, \* state["web_research_result"]
  unique_sources      \* "sources_gathered" of the result

vars == <<pc, llm_provider, api_key, canvas_context, last_user_text, active_role,
          allow_canvas_tools, proposed, gen_text, tool_calls, quick_replies, content,
          llm_error, results, gen_requests, decode_prompt, decode_schema, provider_log, decoded,
          collector, stream, read, handle, tool_calls_by_id, alias_to_call_id, parts,
          sources_gathered, rag_response, web_research_result, unique_sources>>

NoDecode == Decoded(FALSE, "None", "none", "", TRUE, "", "", 0)

Decoder == <<decode_prompt, decode_schema, provider_log, decoded>>

StreamVars ==
  <<collector, stream, read, handle, tool_calls_by_id, alias_to_call_id, parts>>

RagResponse(outcome, answer, sources) ==
  [outcome |-> outcome, answer |-> answer, sources |-> sources]

\* search_provider is not "autorag": kb_retrieve asks nothing
NoResearch ==
  /\ rag_response = RagResponse("off", "", <<>>)
  /\ web_research_result = <<>>

\* no stream is being collected
NoStream ==
  /\ collector = "none"
  /\ stream = <<>>
  /\ read = 0
  /\ handle = "none"
  /\ tool_calls_by_id = <<>>
  /\ alias_to_call_id = {}
  /\ parts = <<>>

NoOutput ==
  /\ proposed = <<>>
  /\ gen_text = Text("", "none")
  /\ tool_calls = <<>>
  /\ quick_replies = "none"
  /\ content = Text("", "none")
  /\ llm_error = "none"
  /\ results = 0
  /\ gen_requests = 0
  /\ unique_sources = <<>>

Init ==
  /\ pc = "select_role"
  /\ llm_provider \in {"openai", "gemini"}
  /\ api_key \in BOOLEAN
  /\ canvas_context \in Canvases
  /\ last_user_text \in UserTexts
  /\ active_role = DEFAULT_ROLE_ID
  /\ allow_canvas_tools = "None"
  /\ decode_prompt = "role-router-prompt"
  /\ decode_schema = "None"
  /\ provider_log = <<>>
  /\ decoded = NoDecode
  /\ NoOutput
  /\ NoStream
  /\ sources_gathered = <<>>
  /\ NoResearch

TurnInputs ==
  <<llm_provider, api_key, canvas_context, last_user_text, sources_gathered, rag_response>>
Output ==
  <<proposed, gen_text, tool_calls, quick_replies, content, llm_error, results,
    gen_requests, unique_sources>>

\* a variant that denies canvas tools when the decision is a fallback
SelectRoleOpenAIDefaultDeny ==
  /\ pc = "select_role"
  /\ llm_provider = "openai"
  /\ \E r1 \in ProviderBehaviours, r2 \in ProviderBehaviours :
       LET result == CallOpenAIStructured(decode_prompt, "RoleDecision", api_key, r1, r2)
       IN /\ decoded' = result
          /\ provider_log' = ProviderLog(api_key, r1, r2)
          /\ active_role' = ResolveRole(result.role_id)
          /\ allow_canvas_tools' =
               IF result.allow /\ result.origin = "parsed" THEN "True" ELSE "False"
  /\ decode_schema' = "RoleDecision"
  /\ pc' = "kb_retrieve"
  /\ UNCHANGED <<TurnInputs, web_research_result, StreamVars, Output, decode_prompt>>

\* select_role, OpenAI path: the decision comes from the structured decoder
SelectRoleOpenAI ==
  /\ pc = "select_role"
  /\ llm_provider = "openai"
  /\ \E r1 \in ProviderBehaviours, r2 \in ProviderBehaviours :
       LET result == CallOpenAIStructured(decode_prompt, "RoleDecision", api_key, r1, r2)
       IN /\ decoded' = result
          /\ provider_log' = ProviderLog(api_key, r1, r2)
          /\ active_role' = ResolveRole(result.role_id)
          /\ allow_canvas_tools' = IF result.allow THEN "True" ELSE "False"
  /\ decode_schema' = "RoleDecision"
  /\ pc' = "kb_retrieve"
  /\ UNCHANGED <<TurnInputs, web_research_result, StreamVars, Output, decode_prompt>>

\* select_role, Gemini path: require_gemini_key() and the model call are not
\* guarded, so a missing key or a provider error leaves the node as an exception
SelectRoleGemini ==
  /\ pc = "select_role"
  /\ llm_provider = "gemini"
  /\ api_key
  /\ \E text \in {"json-role-allow", "json-role-deny", "json-role-unknown",
                  "json-role-name", "json-role-no-allow"} :
       LET result == ParsedValue("RoleDecision", text, 1)
       IN /\ decoded' = result
          /\ provider_log' = <<text>>
          /\ active_role' = ResolveRole(result.role_id)
          /\ allow_canvas_tools' = IF result.allow THEN "True" ELSE "False"
  /\ decode_schema' = "RoleDecision"
  /\ pc' = "kb_retrieve"
  /\ UNCHANGED <<TurnInputs, web_research_result, StreamVars, Output, decode_prompt>>

SelectRoleGeminiRaises ==
  /\ pc = "select_role"
  /\ llm_provider = "gemini"
  /\ pc' = "aborted"
  /\ UNCHANGED <<TurnInputs, web_research_result, StreamVars, Output, active_role, allow_canvas_tools, Decoder>>

\* kb_retrieve
KbRetrieve ==
  /\ pc = "kb_retrieve"
  /\ rag_response.outcome = "off"
  /\ pc' = "direct_answer"
  /\ UNCHANGED <<TurnInputs, web_research_result, StreamVars, Output, active_role, allow_canvas_tools, Decoder>>

\* the answer step returns its message: h is what became of the stream handle,
\* n the number of requests made
Emit(calls, text, r, h, n) ==
  /\ proposed' = calls
  /\ gen_text' = text
  /\ tool_calls' = r.tool_calls
  /\ quick_replies' = r.quick_replies
  /\ content' = r.content
  /\ llm_error' = r.llm_error
  /\ results' = results + 1
  /\ active_role' = ResolveRole(active_role)
  /\ handle' = h
  /\ gen_requests' = n
  /\ unique_sources' = <<>>  \* the loop over no gathered source
  /\ pc' = "END"
  /\ UNCHANGED <<TurnInputs, web_research_result, allow_canvas_tools, Decoder, collector, stream, read,
                 tool_calls_by_id, alias_to_call_id, parts>>

\* direct_answer / finalize_answer, OpenAI path: the request returned a stream
\* and the collector returned calls and text, the stream having been read to its
\* end ("drained"), having raised ("failed") or having been left after a chunk
\* whose handling raised ("open"); the collector reports neither failure
DirectAnswerOpenAI(batches, texts, handles) ==
  /\ pc = "direct_answer"
  /\ llm_provider = "openai"
  /\ api_key
  /\ \E calls \in batches, text \in texts, h \in handles :
       Emit(calls, text,
            FinalizeOpenAI(TRUE, "ok", calls, text, canvas_context, last_user_text,
                           allow_canvas_tools),
            h, 1)

\* get_openai_client() raises ValueError, or the request raises
DirectAnswerOpenAIFails ==
  /\ pc = "direct_answer"
  /\ llm_provider = "openai"
  /\ \E outcome \in {"raise"} :
       Emit(<<>>, Text("", "none"),
            FinalizeOpenAI(api_key, outcome, <<>>, Text("", "none"), canvas_context,
                           last_user_text, allow_canvas_tools),
            "none", IF api_key THEN 1 ELSE 0)

\* Gemini path: llm.invoke returns a message without tool calls
DirectAnswerGemini ==
  /\ pc = "direct_answer"
  /\ llm_provider = "gemini"
  /\ api_key
  /\ \E text \in GenTexts :
       Emit(<<>>, text, AssembleResult(<<>>, "none", text, "none"), "none", 1)

DirectAnswerGeminiRaises ==
  /\ pc = "direct_answer"
  /\ llm_provider = "gemini"
  /\ pc' = "aborted"
  /\ UNCHANGED <<TurnInputs, web_research_result, StreamVars, Output, active_role, allow_canvas_tools, Decoder>>

MaxTurnBatch == 1

Next ==
  \/ SelectRoleOpenAI
  \/ SelectRoleGemini
  \/ SelectRoleGeminiRaises
  \/ KbRetrieve
  \/ DirectAnswerOpenAI(Batches(MaxTurnBatch), GenTexts, {"drained", "failed", "open"})
  \/ DirectAnswerOpenAIFails
  \/ DirectAnswerGemini
  \/ DirectAnswerGeminiRaises

Spec == Init /\ [][Next]_vars

(***************************************************************************)
(* The answer step alone, on the OpenAI path with the key set, from the    *)
(* states in which select_role and kb_retrieve have left the turn: over    *)
(* every batch of up to MaxBatch calls.                                    *)
(***************************************************************************)
InitBatch ==
  /\ pc = "direct_answer"
  /\ llm_provider = "openai"
  /\ api_key = TRUE
  /\ canvas_context \in Canvases
  /\ last_user_text \in UserTexts
  /\ decode_prompt = "role-router-prompt"
  /\ decode_schema = "RoleDecision"
  /\ \E text \in {"json-role-allow", "json-role-deny"} :
       /\ provider_log = <<text>>
       /\ decoded = ParsedValue("RoleDecision", text, 1)
  /\ active_role = ResolveRole(decoded.role_id)
  /\ allow_canvas_tools = IF decoded.allow THEN "True" ELSE "False"
  /\ NoOutput
  /\ NoStream
  /\ sources_gathered = <<>>
  /\ NoResearch

NextBatch == DirectAnswerOpenAI(Batches(MaxBatch), {Text("plain", "none")}, {"drained"})

SpecBatch == InitBatch /\ [][NextBatch]_vars

(***************************************************************************)
(* The structured decoder alone, for each of its three schemas (the call   *)
(* sites are select_role, generate_query and reflection).                  *)
(***************************************************************************)
DecodePrompts == {"prompt-1", "prompt-2", "prompt-3"}

InitDecode ==
  /\ pc = "decode"
  /\ decode_prompt \in DecodePrompts
  /\ decode_schema \in Schemas
  /\ api_key \in BOOLEAN
  /\ provider_log = <<>>
  /\ decoded = NoDecode
  /\ llm_provider = "openai"
  /\ canvas_context = <<>>
  /\ last_user_text = "hello"
  /\ active_role = DEFAULT_ROLE_ID
  /\ allow_canvas_tools = "None"
  /\ NoOutput
  /\ NoStream
  /\ sources_gathered = <<>>
  /\ NoResearch

Decode ==
  /\ pc = "decode"
  /\ \E r1 \in ProviderBehaviours, r2 \in ProviderBehaviours :
       /\ decoded' = CallOpenAIStructured(decode_prompt, decode_schema, api_key, r1, r2)
       /\ provider_log' = ProviderLog(api_key, r1, r2)
  /\ pc' = IF decoded'.raised THEN "aborted" ELSE "decoded"
  /\ UNCHANGED <<TurnInputs, web_research_result, StreamVars, Output, active_role, allow_canvas_tools, decode_prompt,
                 decode_schema>>

NextDecode == Decode

SpecDecode == InitDecode /\ [][NextDecode]_vars

(***************************************************************************)
(* The two normalization passes alone, on the batches that reach them: a   *)
(* non-empty batch on which the loop of the new-character gate did not     *)
(* raise (no createNode with unparsed arguments).                          *)
(***************************************************************************)
NormalizableBatches ==
  {b \in Batches(MaxBatch) :
     b # <<>> /\ \A i \in Indices(b) : ~(IsCreate(b[i]) /\ b[i].raw)}

InitNormalize ==
  /\ pc = "normalize"
  /\ llm_provider = "openai"
  /\ api_key = TRUE
  /\ canvas_context = <<>>
  /\ last_user_text = "hello"
  /\ active_role = DEFAULT_ROLE_ID
  /\ allow_canvas_tools = "True"
  /\ decode_prompt = "role-router-prompt"
  /\ decode_schema = "None"
  /\ provider_log = <<>>
  /\ decoded = NoDecode
  /\ proposed \in NormalizableBatches
  /\ gen_text = Text("", "none")
  /\ tool_calls = proposed
  /\ quick_replies = "none"
  /\ content = Text("", "none")
  /\ llm_error = "none"
  /\ results = 0
  /\ gen_requests = 1
  /\ unique_sources = <<>>
  /\ NoStream
  /\ sources_gathered = <<>>
  /\ NoResearch

\* the image alias rewrite followed by the composeVideo prompt synthesis
Normalize ==
  /\ pc = "normalize"
  /\ tool_calls' = NormalizeComposeVideo(NormalizeImageAlias(tool_calls))
  /\ pc' = "normalized"
  /\ UNCHANGED <<TurnInputs, web_research_result, StreamVars, active_role, allow_canvas_tools, Decoder, proposed, gen_text,
                 quick_replies, content, llm_error, results, gen_requests,
                 unique_sources>>

NextNormalize == Normalize

SpecNormalize == InitNormalize /\ [][NextNormalize]_vars

(***************************************************************************)
(* The linking and sequencing passes one at a time, from the batch the     *)
(* new-character gate and the normalization passes leave: pc names the     *)
(* pass that runs next on tool_calls, "passes_done" when all have run,     *)
(* "passes_raised" when one raised.                                        *)
(***************************************************************************)
MaxPassBatch == 2

\* storyboard reference linking (if wants_storyboard and storyboard_image_label)
StepLink ==
  /\ pc = "link"
  /\ LET l == LinkStoryboardReferences(tool_calls, canvas_context)
     IN /\ tool_calls' = l.calls
        /\ pc' = IF l.err THEN "passes_raised" ELSE "chain"
  /\ UNCHANGED <<TurnInputs, web_research_result, StreamVars, active_role, allow_canvas_tools, Decoder, proposed, gen_text,
                 quick_replies, content, llm_error, results, gen_requests,
                 unique_sources>>

\* storyboard-to-video auto-chaining
StepChain ==
  /\ pc = "chain"
  /\ tool_calls' = AutoChainVideo(tool_calls)
  /\ pc' = "continuity"
  /\ UNCHANGED <<TurnInputs, web_research_result, StreamVars, active_role, allow_canvas_tools, Decoder, proposed, gen_text,
                 quick_replies, content, llm_error, results, gen_requests,
                 unique_sources>>

\* general reference continuity
StepContinuity ==
  /\ pc = "continuity"
  /\ LET c == LinkReferenceContinuity(tool_calls, canvas_context, last_user_text)
     IN /\ tool_calls' = c.calls
        /\ pc' = IF c.err THEN "passes_raised" ELSE "drop_video_runs"
  /\ UNCHANGED <<TurnInputs, web_research_result, StreamVars, active_role, allow_canvas_tools, Decoder, proposed, gen_text,
                 quick_replies, content, llm_error, results, gen_requests,
                 unique_sources>>

\* removal of the runs of videos created in the batch
StepDropVideoRuns ==
  /\ pc = "drop_video_runs"
  /\ LET d == DropVideoRuns(tool_calls)
     IN /\ tool_calls' = d.calls
        /\ pc' = IF d.err THEN "passes_raised" ELSE "auto_run"
  /\ UNCHANGED <<TurnInputs, web_research_result, StreamVars, active_role, allow_canvas_tools, Decoder, proposed, gen_text,
                 quick_replies, content, llm_error, results, gen_requests,
                 unique_sources>>

\* auto-run of the created images
StepAutoRun ==
  /\ pc = "auto_run"
  /\ LET a == AutoRunCreated(tool_calls)
     IN /\ tool_calls' = a.calls
        /\ pc' = IF a.err THEN "passes_raised" ELSE "passes_done"
  /\ UNCHANGED <<TurnInputs, web_research_result, StreamVars, active_role, allow_canvas_tools, Decoder, proposed, gen_text,
                 quick_replies, content, llm_error, results, gen_requests,
                 unique_sources>>

\* the rest of the state of a turn that has reached the passes
InPasses ==
  /\ llm_provider = "openai"
  /\ api_key = TRUE
  /\ decode_prompt = "role-router-prompt"
  /\ decode_schema = "RoleDecision"
  /\ provider_log = <<"json-role-allow">>
  /\ decoded = ParsedValue("RoleDecision", "json-role-allow", 1)
  /\ active_role = ResolveRole(decoded.role_id)
  /\ allow_canvas_tools = "True"
  /\ gen_text = Text("plain", "none")
  /\ quick_replies = "none"
  /\ content = Text("", "none")
  /\ llm_error = "none"
  /\ results = 0
  /\ gen_requests = 1
  /\ unique_sources = <<>>
  /\ NoStream
  /\ sources_gathered = <<>>
  /\ NoResearch

\* canvas snapshots of the passes: the nodes of a turn, and a node whose status
\* is success but that has no imageUrl
PassCanvasNodes == CanvasNodes \cup {Node("N", "image", "success", "")}

PassCanvases == UNION {[1..k -> PassCanvasNodes] : k \in 0..MaxCanvas}

\* proposed is the generator's batch; tool_calls is what the gate and the
\* normalization passes made of it
InitPasses ==
  /\ pc = "link"
  /\ canvas_context \in PassCanvases
  /\ last_user_text \in UserTexts
  /\ proposed \in Batches(MaxPassBatch)
  /\ proposed # <<>>
  /\ ~IsStorySuggestionRequest(last_user_text)
  /\ ~NewCharacterGate(proposed, canvas_context, last_user_text, "none",
                       Text("plain", "none")).err
  /\ tool_calls =
       NormalizeComposeVideo(NormalizeImageAlias(
         NewCharacterGate(proposed, canvas_context, last_user_text, "none",
                          Text("plain", "none")).calls))
  /\ InPasses

NextPasses ==
  \/ StepLink
  \/ StepChain
  \/ StepContinuity
  \/ StepDropVideoRuns
  \/ StepAutoRun

SpecPasses == InitPasses /\ [][NextPasses]_vars

(***************************************************************************)
(* Storyboard reference linking alone, on canvases large enough to offer   *)
(* more candidates than the pass takes, with nodes that are not eligible.  *)
(***************************************************************************)
MaxLinkBatch == 2
MaxLinkCanvas == 4

LinkCalls ==
  {CreateNode("image", "storyboard-S", "image", "p", FALSE),
   CreateNode("image", "X", "image", "p-3x3", FALSE),
   RunNode("storyboard-S"),
   RunNode("X"),
   ConnectNodes("character-A", "storyboard-S"),
   ConnectNodes("U", "X")}

LinkBatches == {WithIdx(s) : s \in UNION {[1..k -> LinkCalls] : k \in 1..MaxLinkBatch}}

LinkCanvasNodes ==
  {Node("character-A", "image", "success", "url"),
   Node("U", "image", "success", "url"),
   Node("X", "image", "success", "url"),
   Node("P", "image", "pending", "url"),
   Node("E", "image", "error", "url")}

LinkCanvases == UNION {[1..k -> LinkCanvasNodes] : k \in 0..MaxLinkCanvas}

InitLink ==
  /\ pc = "link"
  /\ canvas_context \in LinkCanvases
  /\ last_user_text = "hello"
  /\ proposed \in LinkBatches
  /\ tool_calls = proposed
  /\ InPasses

NextLink == StepLink

SpecLink == InitLink /\ [][NextLink]_vars

(***************************************************************************)
(* The stream collectors (_collect_stream_text and                         *)
(* _collect_stream_text_and_tools), one chunk at a time.  A string is the  *)
(* sequence of the pieces it was sent in; "" in a field stands for None.   *)
(***************************************************************************)
MaxStream == 4

ItemEvent(type, call_id, item_id, name, arguments) ==
  [type |-> type, call_id |-> call_id, item_id |-> item_id, name |-> name,
   arguments |-> arguments, delta |-> ""]

ArgumentsDelta(item_id, delta) ==
  [type |-> "response.function_call_arguments.delta", call_id |-> "",
   item_id |-> item_id, name |-> "", arguments |-> <<>>, delta |-> delta]

ArgumentsDone(item_id, arguments) ==
  [type |-> "response.function_call_arguments.done", call_id |-> "",
   item_id |-> item_id, name |-> "", arguments |-> arguments, delta |-> ""]

TextDelta(delta) ==
  [type |-> "response.output_text.delta", call_id |-> "", item_id |-> "",
   name |-> "", arguments |-> <<>>, delta |-> delta]

\* a chat.completions chunk whose choices[0].delta is an object without get():
\* delta.get("content") raises
BadChunk ==
  [type |-> "chat.completion.chunk", call_id |-> "", item_id |-> "",
   name |-> "", arguments |-> <<>>, delta |-> ""]

\* the point of the stream at which the iterator raises (connection lost)
StreamError ==
  [type |-> "error", call_id |-> "", item_id |-> "",
   name |-> "", arguments |-> <<>>, delta |-> ""]

ItemTypes == {"response.output_item.added", "response.output_item.done"}

\* the chunks a stream is made of: the events of call c1 (item i1), the events
\* of a second call c2 (item i2), an item without call id, text, failures
StreamChunks ==
  {ItemEvent("response.output_item.added", "c1", "i1", "createNode", <<>>),
   ItemEvent("response.output_item.done", "c1", "i1", "createNode", <<"{k:", "v}">>),
   ArgumentsDelta("i1", "{k:"),
   ArgumentsDelta("i1", "v}"),
   ArgumentsDelta("i1", " "),
   ArgumentsDone("i1", <<"{k:", "v}">>),
   ItemEvent("response.output_item.added", "c2", "i2", "runNode", <<>>),
   ArgumentsDelta("i2", "{k:"),
   ItemEvent("response.output_item.added", "", "i3", "runNode", <<>>),
   TextDelta("t"),
   BadChunk,
   StreamError}

Streams(n) == UNION {[1..k -> StreamChunks] : k \in 0..n}

\* alias_to_call_id.get(item_id, item_id)
AliasOf(aliases, item_id) ==
  IF \E p \in aliases : p[1] = item_id
    THEN (CHOOSE p \in aliases : p[1] = item_id)[2]
    ELSE item_id

\* alias_to_call_id[alias] = call_id
SetAlias(aliases, alias, call_id) ==
  {p \in aliases : p[1] # alias} \cup {<<alias, call_id>>}

\* tool_calls_by_id.get(call_id) or {"id": call_id, "name": name, "arguments": ""}
RecordOf(records, call_id, name) ==
  IF \E i \in Indices(records) : records[i].id = call_id
    THEN records[CHOOSE i \in Indices(records) : records[i].id = call_id]
    ELSE [id |-> call_id, name |-> name, arguments |-> <<>>]

\* a variant in which an updated record goes last as well
PutRecordMovesLast(records, record) ==
  Append(SelectSeq(records, LAMBDA r : r.id # record.id), record)

\* tool_calls_by_id[call_id] = record: a new key goes last
PutRecord(records, record) ==
  IF \E i \in Indices(records) : records[i].id = record.id
    THEN [i \in Indices(records) |->
            IF records[i].id = record.id THEN record ELSE records[i]]
    ELSE Append(records, record)

IsBlankString(args) == \A i \in Indices(args) : args[i] = " "

\* json.loads accepts the string: it is the object {k: v}, white space apart
IsValidJson(args) == SelectSeq(args, LAMBDA t : t # " ") = <<"{k:", "v}">>

\* a variant that passes the string through when it is valid JSON too
ParseArgumentsNever(args) ==
  IF IsBlankString(args) THEN [kind |-> "object", value |-> <<>>]
  ELSE [kind |-> "string", value |-> args]

\* json.loads(args) if args.strip() else {}; the raw string when that raises
ParseArguments(args) ==
  IF IsBlankString(args) THEN [kind |-> "object", value |-> <<>>]
  ELSE IF IsValidJson(args)
    THEN [kind |-> "object", value |-> SelectSeq(args, LAMBDA t : t # " ")]
  ELSE [kind |-> "string", value |-> args]

\* the list built from tool_calls_by_id.values(): records without name are
\* left out
RECURSIVE BuildToolCalls(_)
BuildToolCalls(records) ==
  IF records = <<>> THEN <<>>
  ELSE LET call == Head(records)
       IN IF call.name = "" THEN BuildToolCalls(Tail(records))
          ELSE <<[id |-> call.id, name |-> call.name,
                  arguments |-> ParseArguments(call.arguments)]>>
                 \o BuildToolCalls(Tail(records))

Collecting == pc = "collect" /\ read < Len(stream)

\* the chunk the loop takes next
Chunk == stream[read + 1]

WithTools == collector = "_collect_stream_text_and_tools"

TurnIdle == <<TurnInputs, web_research_result, active_role, allow_canvas_tools, Decoder, proposed, gen_text,
              quick_replies, content, llm_error, results, gen_requests,
                 unique_sources>>

\* response.output_item.added / response.output_item.done
OnOutputItem ==
  /\ Collecting
  /\ WithTools
  /\ Chunk.type \in ItemTypes
  /\ LET item == Chunk
         found == RecordOf(tool_calls_by_id, item.call_id, item.name)
         named == IF item.name # "" THEN [found EXCEPT !.name = item.name] ELSE found
         record == IF item.arguments # <<>>
                     THEN [named EXCEPT !.arguments = item.arguments] ELSE named
         linked == SetAlias(alias_to_call_id, item.call_id, item.call_id)
     IN IF item.call_id # ""
          THEN /\ alias_to_call_id' =
                    IF item.item_id # ""
                      THEN SetAlias(linked, item.item_id, item.call_id) ELSE linked
               /\ tool_calls_by_id' = PutRecord(tool_calls_by_id, record)
          ELSE UNCHANGED <<alias_to_call_id, tool_calls_by_id>>
  /\ read' = read + 1
  /\ UNCHANGED <<TurnIdle, pc, collector, stream, handle, parts, tool_calls>>

\* response.function_call_arguments.delta
OnArgumentsDelta ==
  /\ Collecting
  /\ WithTools
  /\ Chunk.type = "response.function_call_arguments.delta"
  /\ LET chunk == Chunk
         found == RecordOf(tool_calls_by_id, AliasOf(alias_to_call_id, chunk.item_id), "")
     IN tool_calls_by_id' =
          PutRecord(tool_calls_by_id,
                    [found EXCEPT !.arguments = Append(found.arguments, chunk.delta)])
  /\ read' = read + 1
  /\ UNCHANGED <<TurnIdle, pc, collector, stream, handle, parts, tool_calls, alias_to_call_id>>

\* response.function_call_arguments.done
OnArgumentsDone ==
  /\ Collecting
  /\ WithTools
  /\ Chunk.type = "response.function_call_arguments.done"
  /\ LET chunk == Chunk
         found == RecordOf(tool_calls_by_id, AliasOf(alias_to_call_id, chunk.item_id), "")
     IN tool_calls_by_id' =
          PutRecord(tool_calls_by_id, [found EXCEPT !.arguments = chunk.arguments])
  /\ read' = read + 1
  /\ UNCHANGED <<TurnIdle, pc, collector, stream, handle, parts, tool_calls, alias_to_call_id>>

\* a tool-call event in _collect_stream_text: no branch takes it
OnIgnoredChunk ==
  /\ Collecting
  /\ ~WithTools
  /\ Chunk.type \in ItemTypes \cup {"response.function_call_arguments.delta",
                                           "response.function_call_arguments.done"}
  /\ read' = read + 1
  /\ UNCHANGED <<TurnIdle, pc, collector, stream, handle, parts, tool_calls, alias_to_call_id,
                 tool_calls_by_id>>

\* response.output_text.delta
OnTextDelta ==
  /\ Collecting
  /\ Chunk.type = "response.output_text.delta"
  /\ parts' = Append(parts, Chunk.delta)
  /\ read' = read + 1
  /\ UNCHANGED <<TurnIdle, pc, collector, stream, handle, tool_calls, alias_to_call_id,
                 tool_calls_by_id>>

\* the handling of a chunk raises: except Exception: pass leaves the loop, the
\* chunks not yet read stay in the stream and nothing closes it
OnChunkRaises ==
  /\ Collecting
  /\ Chunk.type = "chat.completion.chunk"
  /\ read' = read + 1
  /\ pc' = "stopped"
  /\ UNCHANGED <<TurnIdle, collector, stream, handle, parts, tool_calls, alias_to_call_id,
                 tool_calls_by_id>>

\* the iterator raises: the same except clause, the stream can yield no more
OnStreamRaises ==
  /\ Collecting
  /\ Chunk.type = "error"
  /\ read' = read + 1
  /\ handle' = "failed"
  /\ pc' = "stopped"
  /\ UNCHANGED <<TurnIdle, collector, stream, parts, tool_calls, alias_to_call_id,
                 tool_calls_by_id>>

\* the end of the function: the loop has ended (for ... in stream ran out) or
\* was left by the except clause; the result is built and returned
ReturnCollected ==
  /\ pc = "stopped" \/ (pc = "collect" /\ read = Len(stream))
  /\ handle' = IF pc = "collect" THEN "drained" ELSE handle
  /\ tool_calls' = IF WithTools THEN BuildToolCalls(tool_calls_by_id) ELSE <<>>
  /\ pc' = "collected"
  /\ UNCHANGED <<TurnIdle, collector, stream, read, parts, alias_to_call_id,
                 tool_calls_by_id>>

InitStream ==
  /\ pc = "collect"
  /\ collector \in {"_collect_stream_text", "_collect_stream_text_and_tools"}
  /\ stream \in Streams(MaxStream)
  /\ read = 0
  /\ handle = "open"
  /\ tool_calls_by_id = <<>>
  /\ alias_to_call_id = {}
  /\ parts = <<>>
  /\ llm_provider = "openai"
  /\ api_key = TRUE
  /\ canvas_context = <<>>
  /\ last_user_text = "hello"
  /\ active_role = DEFAULT_ROLE_ID
  /\ allow_canvas_tools = "None"
  /\ decode_prompt = "role-router-prompt"
  /\ decode_schema = "None"
  /\ provider_log = <<>>
  /\ decoded = NoDecode
  /\ sources_gathered = <<>>
  /\ NoResearch
  /\ NoOutput

NextStream ==
  \/ OnOutputItem
  \/ OnArgumentsDelta
  \/ OnArgumentsDone
  \/ OnIgnoredChunk
  \/ OnTextDelta
  \/ OnChunkRaises
  \/ OnStreamRaises
  \/ ReturnCollected

SpecStream == InitStream /\ [][NextStream]_vars

(***************************************************************************)
(* _extract_tapcanvas_actions on texts with any number of fences.  A text  *)
(* is a sequence of pieces: "t" (prose), "mark" (```tapcanvas_actions and  *)
(* the line end), "fence" (```), "garbage" (a payload that is not JSON),   *)
(* or a JSON payload with its list of actions.  ExtractTapcanvasActions    *)
(* above is this function on the texts of a turn, which hold one block at  *)
(* most.                                                                   *)
(***************************************************************************)
MaxActions == 7
MaxPieces == 5

Piece(kind, actions) == [kind |-> kind, actions |-> actions]

Action(label, input) == [label |-> label, input |-> input]

\* the entries of an actions list: two well-formed ones, one whose label has
\* white space around it, one with a blank label, one with a blank input
ActionItems ==
  {Action("A", "do-a"), Action("B", "do-b"), Action(" A ", "do-a"),
   Action(" ", "do-a"), Action("A", " ")}

\* the texts: every arrangement of up to MaxPieces pieces, and one block after
\* a sentence for every list of up to MaxActions entries
ActionTexts ==
  UNION {[1..k -> {Piece("t", <<>>), Piece("mark", <<>>), Piece("fence", <<>>),
                   Piece("garbage", <<>>),
                   Piece("json", <<Action("A", "do-a"), Action("B", "do-b")>>)}] :
           k \in 0..MaxPieces}
    \cup {<<Piece("t", <<>>), Piece("mark", <<>>), Piece("json", l), Piece("fence", <<>>)>> :
            l \in UNION {[1..k -> ActionItems] : k \in 0..MaxActions}}

\* label.strip(): " A " is "A", " " is ""
Stripped(s) == IF s = " A " THEN "A" ELSE IF s = " " THEN "" ELSE s

MaxQuickReplies == 6

\* the loop over the entries: an entry without label or input is skipped, the
\* loop stops when the list holds 6
RECURSIVE NormalizeActions(_, _)
NormalizeActions(actions, normalized) ==
  IF actions = <<>> \/ Len(normalized) >= MaxQuickReplies THEN normalized
  ELSE LET item == Head(actions)
       IN IF Stripped(item.label) = "" \/ Stripped(item.input) = ""
            THEN NormalizeActions(Tail(actions), normalized)
            ELSE NormalizeActions(Tail(actions),
                   Append(normalized, Action(Stripped(item.label), item.input)))

\* (cleaned, quick replies); the empty list stands for None ("normalized or
\* None").  text.find(marker) is the
\* first "mark"; text.find("```", start_payload) is the next "fence" or the
\* backticks that open the next "mark", whose rest stays in the cleaned text
ExtractActions(text) ==
  LET marks == {i \in Indices(text) : text[i].kind = "mark"}
      start == IF marks = {} THEN 0 ELSE Least(marks)
      ends == {i \in Indices(text) : i > start /\ text[i].kind \in {"fence", "mark"}}
      end_fence == IF ends = {} THEN 0 ELSE Least(ends)
      payload_raw == SubSeq(text, start + 1, end_fence - 1)
      cleaned == SubSeq(text, 1, start - 1)
                   \o (IF text[end_fence].kind = "mark" THEN <<Piece("mark-rest", <<>>)>> ELSE <<>>)
                   \o SubSeq(text, end_fence + 1, Len(text))
      normalized == NormalizeActions(payload_raw[1].actions, <<>>)
  IN IF start = 0 \/ end_fence = 0 THEN [text |-> text, qr |-> <<>>]
     ELSE IF Len(payload_raw) # 1 \/ payload_raw[1].kind # "json"
       THEN [text |-> cleaned, qr |-> <<>>]
     ELSE [text |-> cleaned, qr |-> normalized]

\* content, quick_replies_payload = _extract_tapcanvas_actions(content)
Extract ==
  /\ pc = "extract"
  /\ content' = ExtractActions(gen_text).text
  /\ quick_replies' = ExtractActions(gen_text).qr
  /\ pc' = "extracted"
  /\ UNCHANGED <<TurnInputs, web_research_result, StreamVars, active_role, allow_canvas_tools, Decoder, proposed,
                 gen_text, tool_calls, llm_error, results, gen_requests,
                 unique_sources>>

InitActions ==
  /\ pc = "extract"
  /\ gen_text \in ActionTexts
  /\ content = <<>>
  /\ quick_replies = <<>>
  /\ proposed = <<>>
  /\ tool_calls = <<>>
  /\ llm_error = "none"
  /\ results = 0
  /\ gen_requests = 1
  /\ unique_sources = <<>>
  /\ llm_provider = "openai"
  /\ api_key = TRUE
  /\ canvas_context = <<>>
  /\ last_user_text = "hello"
  /\ active_role = DEFAULT_ROLE_ID
  /\ allow_canvas_tools = "True"
  /\ decode_prompt = "role-router-prompt"
  /\ decode_schema = "None"
  /\ provider_log = <<>>
  /\ decoded = NoDecode
  /\ NoStream
  /\ sources_gathered = <<>>
  /\ NoResearch

SpecActions == InitActions /\ [][Extract]_vars

(***************************************************************************)
(* Citation substitution: the loop of finalize_answer over the gathered    *)
(* sources.  A text or a URL is a sequence of pieces, so that one URL can  *)
(* begin with, or contain, another.                                        *)
(***************************************************************************)
MaxSources == 2
MaxCiteText == 4

Source(short_url, value) == [short_url |-> short_url, value |-> value]

\* two grounding sources whose short URLs are s/1 and s/12, one whose canonical
\* URL contains s/1, and a knowledge-base source, whose short URL is its URL
GatheredSources ==
  {Source(<<"s", "1">>, <<"L", "1">>),
   Source(<<"s", "1", "2">>, <<"L", "12">>),
   Source(<<"s", "3">>, <<"L", "s", "1">>),
   Source(<<"k">>, <<"k">>)}

CiteTexts == UNION {[1..k -> {"w", "s", "1", "2", "3", "k"}] : k \in 0..MaxCiteText}

\* sub in text
Occurs(sub, text) ==
  \E i \in 1..(Len(text) - Len(sub) + 1) : SubSeq(text, i, i + Len(sub) - 1) = sub

\* text.replace(old, new): the occurrences from the left, none overlapping
RECURSIVE Replace(_, _, _)
Replace(text, old, new) ==
  IF Len(text) < Len(old) THEN text
  ELSE IF SubSeq(text, 1, Len(old)) = old
    THEN new \o Replace(SubSeq(text, Len(old) + 1, Len(text)), old, new)
    ELSE <<Head(text)>> \o Replace(Tail(text), old, new)

\* the loop: each source is looked up in the text as the sources before it left it
RECURSIVE SubstituteCitations(_, _, _)
SubstituteCitations(sources, text, kept) ==
  IF sources = <<>> THEN [content |-> text, unique_sources |-> kept]
  ELSE LET source == Head(sources)
       IN IF Occurs(source.short_url, text)
            THEN SubstituteCitations(Tail(sources),
                   Replace(text, source.short_url, source.value), Append(kept, source))
            ELSE SubstituteCitations(Tail(sources), text, kept)

Cite ==
  /\ pc = "cite"
  /\ content' = SubstituteCitations(sources_gathered, content, <<>>).content
  /\ unique_sources' = SubstituteCitations(sources_gathered, content, <<>>).unique_sources
  /\ pc' = "cited"
  /\ UNCHANGED <<TurnInputs, web_research_result, StreamVars, active_role, allow_canvas_tools, Decoder, proposed,
                 gen_text, tool_calls, quick_replies, llm_error, results, gen_requests>>

\* the generated text holds no actions block: it is the content the loop starts with
InitCite ==
  /\ pc = "cite"
  /\ gen_text \in CiteTexts
  /\ content = gen_text
  /\ sources_gathered \in UNION {[1..k -> GatheredSources] : k \in 0..MaxSources}
  /\ NoResearch
  /\ unique_sources = <<>>
  /\ quick_replies = "none"
  /\ proposed = <<>>
  /\ tool_calls = <<>>
  /\ llm_error = "none"
  /\ results = 0
  /\ gen_requests = 1
  /\ llm_provider = "openai"
  /\ api_key = TRUE
  /\ canvas_context = <<>>
  /\ last_user_text = "hello"
  /\ active_role = DEFAULT_ROLE_ID
  /\ allow_canvas_tools = "True"
  /\ decode_prompt = "role-router-prompt"
  /\ decode_schema = "None"
  /\ provider_log = <<>>
  /\ decoded = NoDecode
  /\ NoStream

SpecCite == InitCite /\ [][Cite]_vars

(***************************************************************************)
(* Knowledge-base retrieval: kb_retrieve with search_provider "autorag".   *)
(***************************************************************************)
MaxRagSources == 2

\* an entry of the result's "sources" list
RagItem(is_dict, url, text) == [is_dict |-> is_dict, url |-> url, text |-> text]

\* the request is not configured, it fails, its body is not JSON, or the body is
\* a JSON object whose result holds an answer and a list of sources
RagResponses ==
  {RagResponse(o, "", <<>>) : o \in {"unconfigured", "http-error", "failed", "not-json"}}
    \cup {RagResponse("json", a, l) :
            a \in {"", " ", "answer"},
            l \in UNION {[1..k -> {RagItem(FALSE, "", ""), RagItem(TRUE, "", ""),
                                    RagItem(TRUE, "u", " "), RagItem(TRUE, " ", "body"),
                                    RagItem(TRUE, "u", "body")}] :
                          k \in 0..MaxRagSources}}

Snippet(kind, text) == [kind |-> kind, text |-> text]

\* the loop over raw_sources: a snippet for an entry with a body, a source for an
\* entry with a URL
RECURSIVE RagItemSnippets(_)
RagItemSnippets(items) ==
  IF items = <<>> THEN <<>>
  ELSE LET item == Head(items)
       IN (IF item.is_dict /\ Stripped(item.text) # ""
             THEN <<Snippet("item", Stripped(item.text))>> ELSE <<>>)
            \o RagItemSnippets(Tail(items))

RECURSIVE RagItemSources(_)
RagItemSources(items) ==
  IF items = <<>> THEN <<>>
  ELSE LET item == Head(items)
       IN (IF item.is_dict /\ Stripped(item.url) # ""
             THEN <<[value |-> item.url, short_url |-> item.url]>> ELSE <<>>)
            \o RagItemSources(Tail(items))

\* _autorag_normalize_result: (snippets, sources); without any snippet the
\* result itself is dumped as the one snippet
AutoragNormalizeResult(result) ==
  LET answered == IF Stripped(result.answer) # ""
                    THEN <<Snippet("answer", Stripped(result.answer))>> ELSE <<>>
      snippets == answered \o RagItemSnippets(result.sources)
  IN [snippets |-> IF snippets = <<>> THEN <<Snippet("dump", "result")>> ELSE snippets,
      sources |-> RagItemSources(result.sources)]

\* _call_autorag_search
CallAutoragSearch(response) ==
  CASE response.outcome = "unconfigured" -> [snippets |-> <<>>, sources |-> <<>>]
    [] response.outcome \in {"http-error", "failed", "not-json"} ->
         [snippets |-> <<Snippet("error", response.outcome)>>, sources |-> <<>>]
    [] OTHER -> AutoragNormalizeResult(response)

\* kb_retrieve with the autorag provider: the state is updated when there are
\* snippets
KbRetrieveAutorag ==
  /\ pc = "kb_retrieve"
  /\ rag_response.outcome # "off"
  /\ LET found == CallAutoragSearch(rag_response)
     IN IF last_user_text = "" \/ found.snippets = <<>>
          THEN UNCHANGED <<web_research_result, sources_gathered>>
          ELSE /\ web_research_result' = found.snippets
               /\ sources_gathered' = found.sources
  /\ pc' = "direct_answer"
  /\ UNCHANGED <<llm_provider, api_key, canvas_context, last_user_text, rag_response,
                 StreamVars, Output, active_role, allow_canvas_tools, Decoder>>

InitRetrieve ==
  /\ pc = "kb_retrieve"
  /\ rag_response \in RagResponses
  /\ web_research_result = <<>>
  /\ sources_gathered = <<>>
  /\ llm_provider = "openai"
  /\ api_key = TRUE
  /\ canvas_context = <<>>
  /\ last_user_text \in {"", "hello"}
  /\ active_role = DEFAULT_ROLE_ID
  /\ allow_canvas_tools = "True"
  /\ decode_prompt = "role-router-prompt"
  /\ decode_schema = "None"
  /\ provider_log = <<>>
  /\ decoded = NoDecode
  /\ NoOutput
  /\ NoStream

SpecRetrieve == InitRetrieve /\ [][KbRetrieveAutorag]_vars

(***************************************************************************)
(* The composeVideo normalization on the config itself.  A prompt is a     *)
(* sequence of lines: <<>> is the empty string, <<" ">> a blank one.  A    *)
(* list field is absent ("none") or a list of entries; an entry is "bad"   *)
(* (not an object), "empty" (an object without text) or a text.            *)
(***************************************************************************)
VideoConfig(prompt, videoPrompt, duration, style, characters, shots) ==
  [prompt |-> prompt, videoPrompt |-> videoPrompt, duration |-> duration,
   style |-> style, characters |-> characters, shots |-> shots]

ListField(is_list, items) == [is_list |-> is_list, items |-> items]

VideoConfigs ==
  {VideoConfig(p, v, d, s, c, h) :
     p \in {<<>>, <<" ">>, <<"p">>}, v \in {<<>>, <<"vp">>}, d \in {0, 15},
     s \in {"", "noir"},
     c \in {ListField(FALSE, <<>>), ListField(TRUE, <<>>), ListField(TRUE, <<"bad">>),
            ListField(TRUE, <<"hero">>)},
     h \in {ListField(FALSE, <<>>), ListField(TRUE, <<>>), ListField(TRUE, <<"empty">>),
            ListField(TRUE, <<"shot">>)}}

IsBlankPrompt(prompt) == prompt \in {<<>>, <<" ">>}

\* the lines of the character list: a line for each object that has text
CharacterLines(items) ==
  IF items = <<>> THEN <<>>
  ELSE <<"", "characters:">> \o SelectSeq(items, LAMBDA c : c \notin {"bad", "empty"})

\* the lines of the shot list: a line for each object, its id at least
ShotLines(items) ==
  IF items = <<>> THEN <<>>
  ELSE <<"", "shots:">> \o SelectSeq(items, LAMBDA c : c # "bad")

\* _composevideo_prompt_from_structured_config: parts starts with the title
\* line, so the joined text is never empty and the freeform keys are not read
ComposevideoPromptFromStructuredConfig(cfg) ==
  LET lines == <<"title">>
                 \o (IF cfg.duration # 0 THEN <<"meta">> ELSE <<>>)
                 \o (IF cfg.style # "" THEN <<cfg.style>> ELSE <<>>)
                 \o CharacterLines(cfg.characters.items)
                 \o ShotLines(cfg.shots.items)
  IN IF lines # <<>> THEN lines
     ELSE IF ~IsBlankPrompt(cfg.prompt) THEN cfg.prompt
     ELSE IF ~IsBlankPrompt(cfg.videoPrompt) THEN cfg.videoPrompt
     ELSE <<>>

\* the loop body of the composeVideo normalization
CoerceVideoConfig(cfg) ==
  IF ~IsBlankPrompt(cfg.prompt) THEN cfg
  ELSE IF cfg.shots.is_list \/ cfg.characters.is_list
    THEN IF ComposevideoPromptFromStructuredConfig(cfg) # <<>>
           THEN [cfg EXCEPT !.prompt = ComposevideoPromptFromStructuredConfig(cfg)]
           ELSE cfg
  ELSE cfg

VideoCreate(cfg) == [name |-> "createNode", type |-> "composeVideo", config |-> cfg]

CoerceVideoPrompts ==
  /\ pc = "coerce"
  /\ tool_calls' = [i \in Indices(proposed) |-> VideoCreate(CoerceVideoConfig(proposed[i].config))]
  /\ pc' = "coerced"
  /\ UNCHANGED <<TurnInputs, web_research_result, StreamVars, active_role, allow_canvas_tools,
                 Decoder, proposed, gen_text, quick_replies, content, llm_error, results,
                 gen_requests, unique_sources>>

InitCoerce ==
  /\ pc = "coerce"
  /\ \E cfg \in VideoConfigs : proposed = <<VideoCreate(cfg)>>
  /\ tool_calls = <<>>
  /\ gen_text = Text("", "none")
  /\ quick_replies = "none"
  /\ content = Text("", "none")
  /\ llm_error = "none"
  /\ results = 0
  /\ gen_requests = 1
  /\ unique_sources = <<>>
  /\ llm_provider = "openai"
  /\ api_key = TRUE
  /\ canvas_context = <<>>
  /\ last_user_text = "hello"
  /\ active_role = DEFAULT_ROLE_ID
  /\ allow_canvas_tools = "True"
  /\ decode_prompt = "role-router-prompt"
  /\ decode_schema = "None"
  /\ provider_log = <<>>
  /\ decoded = NoDecode
  /\ NoStream
  /\ sources_gathered = <<>>
  /\ NoResearch

SpecCoerce == InitCoerce /\ [][CoerceVideoPrompts]_vars

(***************************************************************************)
(* The excerpt of the storyboard prompt that auto-chaining appends to the  *)
(* video prompt.  A text is a sequence of runs: n characters of one kind,  *)
(* "x" (not white space), " " or "nl" (line break).                        *)
(***************************************************************************)
MaxRuns == 3
HintLimit == 1200

Run(kind, n) == [kind |-> kind, n |-> n]

StoryboardPrompts ==
  UNION {[1..k -> {Run(c, n) : c \in {"x", " ", "nl"}, n \in {1, 2, 1199, 1200, 1201}}] :
           k \in 0..MaxRuns}

\* len(text)
RECURSIVE TextLen(_)
TextLen(t) == IF t = <<>> THEN 0 ELSE Head(t).n + TextLen(Tail(t))

\* the text without the leading runs of the kinds given
RECURSIVE LStripRuns(_, _)
LStripRuns(t, kinds) ==
  IF t # <<>> /\ Head(t).kind \in kinds THEN LStripRuns(Tail(t), kinds) ELSE t

\* str.rstrip(): the text without the trailing runs of the kinds given
RECURSIVE RStripRuns(_, _)
RStripRuns(t, kinds) ==
  IF t # <<>> /\ t[Len(t)].kind \in kinds
    THEN RStripRuns(SubSeq(t, 1, Len(t) - 1), kinds) ELSE t

\* str.splitlines(), line being the runs of the line that is open
RECURSIVE SplitLines(_, _)
SplitLines(t, line) ==
  IF t = <<>> THEN <<line>>
  ELSE IF Head(t).kind = "nl" THEN <<line>> \o SplitLines(Tail(t), <<>>)
  ELSE SplitLines(Tail(t), Append(line, Head(t)))

\* "\n".join(lines)
RECURSIVE JoinLines(_)
JoinLines(ls) ==
  IF ls = <<>> THEN <<>>
  ELSE IF Len(ls) = 1 THEN ls[1]
  ELSE ls[1] \o <<Run("nl", 1)>> \o JoinLines(Tail(ls))

\* the stripped, non-blank lines of the prompt, joined
NormalizedPrompt(prompt) ==
  LET ls == SplitLines(prompt, <<>>)
      stripped == [i \in Indices(ls) |-> RStripRuns(LStripRuns(ls[i], {" "}), {" "})]
  IN JoinLines(SelectSeq(stripped, LAMBDA l : l # <<>>))

\* text[:n]
RECURSIVE TakeChars(_, _)
TakeChars(t, n) ==
  IF t = <<>> \/ n = 0 THEN <<>>
  ELSE IF Head(t).n <= n THEN <<Head(t)>> \o TakeChars(Tail(t), n - Head(t).n)
  ELSE <<Run(Head(t).kind, n)>>

\* normalized, cut to normalized[:1200].rstrip() + the ellipsis when it is longer
StoryboardExcerpt(prompt) ==
  LET normalized == NormalizedPrompt(prompt)
  IN IF TextLen(normalized) > HintLimit
       THEN RStripRuns(TakeChars(normalized, HintLimit), {" ", "nl"}) \o <<Run("ellipsis", 1)>>
       ELSE normalized

\* the createNode of the video that auto-chaining appends, with the excerpt its
\* prompt ends with
ChainVideoWithExcerpt ==
  /\ pc = "excerpt"
  /\ tool_calls' =
       Append(proposed, [name |-> "createNode", type |-> "composeVideo",
                         label |-> "storyboard-S-15sVideo",
                         excerpt |-> StoryboardExcerpt(proposed[1].prompt)])
  /\ pc' = "excerpted"
  /\ UNCHANGED <<TurnInputs, web_research_result, StreamVars, active_role, allow_canvas_tools,
                 Decoder, proposed, gen_text, quick_replies, content, llm_error, results,
                 gen_requests, unique_sources>>

InitExcerpt ==
  /\ pc = "excerpt"
  /\ \E prompt \in StoryboardPrompts :
       proposed = <<[name |-> "createNode", type |-> "image", label |-> "storyboard-S",
                     prompt |-> prompt]>>
  /\ tool_calls = proposed
  /\ InPasses
  /\ canvas_context = <<>>
  /\ last_user_text = "hello"

SpecExcerpt == InitExcerpt /\ [][ChainVideoWithExcerpt]_vars

(***************************************************************************)
(* Properties.                                                             *)
(***************************************************************************)
Done == pc = "END"

\* the answer step ran its passes to the end (no error descriptor)
Completed == pc = "END" /\ llm_error = "none"

\* call c refers to label L: a runNode of L, or a connectNodes from or to L
Targets(c, L) == IsRun(c) /\ ~c.raw /\ L # "" /\ c.nodeId = L
Refers(c, L) ==
  \/ Targets(c, L)
  \/ IsConnect(c) /\ ~c.raw /\ L # "" /\ (c.src = L \/ c.tgt = L)

\* C1: if the turn's allow_canvas_tools flag is false, the batch of the final
\* result is empty, whatever the generator proposed and whatever the canvas holds.
C1_GateEmptiesBatch ==
  (Done /\ allow_canvas_tools = "False") => tool_calls = <<>>

\* a denied turn whose generator proposed a storyboard image on a canvas that
\* holds a reference image (the later passes would link, chain and run it)
C1_Witness ==
  /\ Done
  /\ allow_canvas_tools = "False"
  /\ canvas_context # <<>>
  /\ \E i \in Indices(proposed) :
        IsCreate(proposed[i]) /\ proposed[i].label = "storyboard-S"
  /\ tool_calls = <<>>

\* C2: in the final batch every connectNodes and runNode that refers to a label
\* created by a createNode of the batch comes after that createNode.
C2_ReferenceAfterCreate ==
  Completed =>
    \A i \in Indices(tool_calls), j \in Indices(tool_calls) :
       (IsCreate(tool_calls[j]) /\ Refers(tool_calls[i], tool_calls[j].label)) => j < i

\* a connectNodes put in by a linking pass
InsertedConnect(c) == c.origin \in {"auto_ref", "auto_connect"}

\* C3: no connectNodes inserted by the linker has the same (source, target) pair
\* as another connectNodes of the final batch.
C3_NoDuplicateInsertedConnect ==
  Completed =>
    \A i \in Indices(tool_calls), j \in Indices(tool_calls) :
       (i # j /\ InsertedConnect(tool_calls[i]) /\ IsConnect(tool_calls[j]))
         => <<tool_calls[i].src, tool_calls[i].tgt>> # <<tool_calls[j].src, tool_calls[j].tgt>>

\* C4: when the role decision disallows canvas tools and the generated text has
\* no actions block, the final result carries the three quick replies of the gate.
C4_GateQuickReplies ==
  (/\ Completed
   /\ llm_provider = "openai"
   /\ allow_canvas_tools = "False"
   /\ ~IsStorySuggestionRequest(last_user_text)
   /\ gen_text.block = "none")
    => quick_replies = "gate"

\* C5: for each of the three schemas and every provider behaviour the structured
\* decoder returns a value of the requested schema and raises nothing.
C5_DecoderTotal ==
  pc # "decode" =>
    /\ pc = "decoded"
    /\ ~decoded.raised
    /\ decoded.schema = decode_schema

\* a decode whose first request raised and whose retry gave unparseable text
C5_Witness ==
  /\ pc = "decoded"
  /\ decode_schema = "Reflection"
  /\ provider_log = <<"raise", "garbage">>
  /\ decoded.origin = "fallback"

\* C6: every turn runs to the end and produces exactly one final message; no
\* stage lets an exception abort it.
C6_TurnAlwaysCompletes ==
  /\ pc # "aborted"
  /\ Done => results = 1

\* the positions of the final batch that run label L
RunsOf(L) == {i \in Indices(tool_calls) : Targets(tool_calls[i], L)}

\* C7: each label of an image-family node created in the final batch is the
\* nodeId of exactly one runNode of that batch.
C7_ExactlyOneRun ==
  Completed =>
    \A L \in CreatedImageLabels(tool_calls) : Cardinality(RunsOf(L)) = 1

AutoRunsOf(L) == {i \in RunsOf(L) : tool_calls[i].origin = "auto_run"}
OtherRunsOf(L) == {i \in RunsOf(L) : tool_calls[i].origin # "auto_run"}
ImageCreatesOf(L) ==
  {i \in Indices(tool_calls) :
     /\ IsCreate(tool_calls[i])
     /\ tool_calls[i].type \in {"image", "textToImage"}
     /\ tool_calls[i].label = L}

\* what the auto-run step appends: one runNode per createNode of an image label
\* that no earlier runNode targets, none for a targeted label, all at the end
AutoRunsAsNeeded(labels) ==
  /\ \A L \in labels :
        /\ OtherRunsOf(L) = {} => Cardinality(AutoRunsOf(L)) = Cardinality(ImageCreatesOf(L))
        /\ OtherRunsOf(L) # {} => AutoRunsOf(L) = {}
  /\ \A i \in Indices(tool_calls), j \in Indices(tool_calls) :
        (i < j /\ tool_calls[i].origin = "auto_run") => tool_calls[j].origin = "auto_run"

C9_NoRunOfCreatedVideo ==
  (/\ Completed
   /\ \E i \in Indices(tool_calls) :
         IsCreate(tool_calls[i]) /\ tool_calls[i].type \in {"image", "textToImage"}
   /\ \E i \in Indices(tool_calls) :
         IsCreate(tool_calls[i]) /\ tool_calls[i].type = "composeVideo")
    => /\ \A L \in CreatedVideoLabels(tool_calls) : RunsOf(L) = {}
       /\ \A k \in Indices(proposed) :
             (IsCreate(proposed[k]) /\ proposed[k].type = "composeVideo")
               => \E i \in Indices(tool_calls) :
                     tool_calls[i].origin = "gen" /\ tool_calls[i].idx = k

\* C10: the generator's calls that are still in the final batch are in the order
\* of the generator's output, each with the operation it was proposed with.
C10_OrderPreserved ==
  Done =>
    /\ \A i \in Indices(tool_calls) :
          tool_calls[i].origin = "gen"
            => /\ tool_calls[i].idx \in Indices(proposed)
               /\ tool_calls[i].name = proposed[tool_calls[i].idx].name
    /\ \A i \in Indices(tool_calls), j \in Indices(tool_calls) :
          (i < j /\ tool_calls[i].origin = "gen" /\ tool_calls[j].origin = "gen")
            => tool_calls[i].idx < tool_calls[j].idx

\* a final batch in which a pass dropped a generator call and put a call of its
\* own between two generator calls
C10_Witness ==
  /\ Completed
  /\ \E k \in Indices(proposed) :
        \A i \in Indices(tool_calls) :
           ~(tool_calls[i].origin = "gen" /\ tool_calls[i].idx = k)
  /\ \E i \in Indices(tool_calls), j \in Indices(tool_calls), m \in Indices(tool_calls) :
        /\ i < m /\ m < j
        /\ tool_calls[i].origin = "gen"
        /\ tool_calls[m].origin # "gen"
        /\ tool_calls[j].origin = "gen"

(***************************************************************************)
(* New-character gating.                                                   *)
(***************************************************************************)
\* a createNode of an image node, under either alias of the type
IsImageCreate(c) == IsCreate(c) /\ ~c.raw /\ c.type \in {"image", "textToImage"}

\* a createNode of an image for a character that is not on the canvas
IsNewCharacterCreate(c) ==
  /\ IsImageCreate(c)
  /\ AnyIn({"juese", "character"}, c.label)
  /\ ~AnyIn(StoryboardLabelKws, c.label)
  /\ c.label \notin CanvasLabels(canvas_context)

\* a createNode of a storyboard-grid image: the label names a storyboard
IsStoryboardGridCreate(c) == IsImageCreate(c) /\ AnyIn(StoryboardLabelKws, c.label)

\* a continuation turn whose generator proposed a new character together with a
\* storyboard grid, the proposal having reached the post-generation passes
ProposesCharacterWithStoryboard ==
  /\ Completed
  /\ allow_canvas_tools = "True"
  /\ IsContinuationStep(last_user_text)
  /\ \E i \in Indices(proposed) : IsNewCharacterCreate(proposed[i])
  /\ \E i \in Indices(proposed) : IsStoryboardGridCreate(proposed[i])

\* C11: in a continuation turn whose batch creates a new-character image and a
\* storyboard-grid image, the final batch creates neither a storyboard-grid image
\* nor a composeVideo node, whatever type alias and prompt the character node has.
C11_CharacterPreemptsStoryboard ==
  ProposesCharacterWithStoryboard =>
    \A i \in Indices(tool_calls) :
       /\ ~IsStoryboardGridCreate(tool_calls[i])
       /\ ~(IsCreate(tool_calls[i]) /\ tool_calls[i].type = "composeVideo")

\* the turn on which the code's gating condition held for the proposed batch
GatingFired ==
  /\ Completed
  /\ allow_canvas_tools = "True"
  /\ proposed # <<>>
  /\ NewCharacterGateFires(proposed, canvas_context, last_user_text)

\* C12: when new-character gating fires, the final batch holds only the createNode
\* calls of the new-character images and the runNode calls on those labels: no
\* connectNodes, no updateNode, no call for another label.
C12_OnlyCharacterCreateRun ==
  GatingFired =>
    \A i \in Indices(tool_calls) :
       \/ /\ IsCreate(tool_calls[i])
          /\ tool_calls[i].type = "image"
          /\ tool_calls[i].label \in NewCharacterLabels(proposed, canvas_context)
       \/ /\ IsRun(tool_calls[i])
          /\ tool_calls[i].nodeId \in NewCharacterLabels(proposed, canvas_context)

\* C13: when new-character gating fires, the final result carries the three quick
\* replies (confirm the character, redo it, continue without it).
C13_GatingQuickReplies ==
  GatingFired => quick_replies = "character"

(***************************************************************************)
(* Normalization.                                                          *)
(***************************************************************************)
\* position k of the generator's output is a labelled createNode declared with
\* type textToImage that no proposed runNode targets
UnrunAliasCreate(k) ==
  /\ IsCreate(proposed[k])
  /\ ~proposed[k].raw
  /\ proposed[k].type = "textToImage"
  /\ proposed[k].label # ""
  /\ \A j \in Indices(proposed) : ~Targets(proposed[j], proposed[k].label)

\* the final batch holds the call of position k as an image createNode, followed by
\* an auto-inserted runNode of its label, and declares no textToImage node
AliasCreateNormalizedAndRun(k) ==
  /\ \E i \in Indices(tool_calls) :
        /\ tool_calls[i].origin = "gen"
        /\ tool_calls[i].idx = k
        /\ IsCreate(tool_calls[i])
        /\ tool_calls[i].type = "image"
        /\ tool_calls[i].label = proposed[k].label
        /\ proposed[k].kind = "textToImage" => tool_calls[i].kind = "image"
        /\ \E j \in Indices(tool_calls) :
              /\ i < j
              /\ tool_calls[j].origin = "auto_run"
              /\ tool_calls[j].nodeId = proposed[k].label
  /\ \A i \in Indices(tool_calls) :
        ~(IsCreate(tool_calls[i]) /\ tool_calls[i].type = "textToImage")

SameButTypeKindPrompt(a, b) ==
  /\ a.origin = b.origin /\ a.idx = b.idx /\ a.name = b.name
  /\ a.label = b.label /\ a.structured = b.structured
  /\ a.src = b.src /\ a.tgt = b.tgt /\ a.nodeId = b.nodeId /\ a.raw = b.raw

\* C15: the two normalization passes leave the batch with the same number of
\* calls, in the same order, with the same ids and operation names; they change
\* only type, config.kind and config.prompt of createNode calls.
C15_NormalizationFrame ==
  pc = "normalized" =>
    /\ Len(tool_calls) = Len(proposed)
    /\ \A i \in Indices(proposed) :
          /\ i \in Indices(tool_calls)
          /\ SameButTypeKindPrompt(proposed[i], tool_calls[i])
          /\ ~IsCreate(proposed[i]) => tool_calls[i] = proposed[i]

\* a batch in which both passes rewrote a createNode
C15_Witness ==
  /\ pc = "normalized"
  /\ \E i \in Indices(proposed) :
        proposed[i].type = "textToImage" /\ tool_calls[i].type = "image"
  /\ \E i \in Indices(proposed) :
        proposed[i].prompt = "" /\ tool_calls[i].prompt = "p-synth"
  /\ \E i \in Indices(proposed) : ~IsCreate(proposed[i])

(***************************************************************************)
(* Storyboard workflow.                                                    *)
(***************************************************************************)
\* the generator proposed [createNode image S, runNode S] with S a storyboard grid,
\* the canvas holds one node, and the batch reached the post-generation passes
\* (canvas tools allowed, no open-ended story-suggestion request)
ScenarioB ==
  /\ Completed
  /\ allow_canvas_tools = "True"
  /\ ~IsStorySuggestionRequest(last_user_text)
  /\ Len(canvas_context) = 1
  /\ canvas_context[1].status = "success"
  /\ canvas_context[1].kind = "image"
  /\ Len(proposed) = 2
  /\ IsStoryboardGridCreate(proposed[1])
  /\ proposed[1].type = "image"
  /\ Targets(proposed[2], proposed[1].label)

SuccessfulImageLabels ==
  {canvas_context[i].label : i \in {j \in Indices(canvas_context) :
      /\ canvas_context[j].status = "success"
      /\ canvas_context[j].kind \in ImageKinds}}

\* after is before with n calls put in after position at (0 <= at <= Len(before))
InsertedRun(before, after, at, n) ==
  /\ Len(after) = Len(before) + n
  /\ \A i \in 1..at : after[i] = before[i]
  /\ \A i \in (at + 1)..Len(before) : after[i + n] = before[i]

\* the pairs connected by the connectNodes calls of a batch
ConnectedPairs(batch) ==
  {<<batch[i].src, batch[i].tgt>> : i \in {j \in Indices(batch) : IsConnect(batch[j])}}

\* what one run of storyboard reference linking does to the batch, sb being the
\* storyboard node the batch creates ("" when it creates none)
LinkEffect(before, after, sb) ==
  \E n \in 0..RefPickCount, at \in 0..Len(before) :
     /\ InsertedRun(before, after, at, n)
     /\ sb = "" => n = 0
     /\ \A k \in (at + 1)..(at + n) :
           /\ IsConnect(after[k])
           /\ after[k].tgt = sb
           /\ after[k].src \in SuccessfulImageLabels
           /\ after[k].src # sb
           /\ <<after[k].src, sb>> \notin ConnectedPairs(before)
     /\ n > 0 =>
           IF \E i \in Indices(before) : Targets(before[i], sb)
             THEN Targets(before[at + 1], sb)
             ELSE at = Len(before)

\* C17: storyboard reference linking inserts at most 3 connectNodes into the
\* storyboard node, each from a successful canvas image node other than the
\* storyboard node, none for a pair already connected in the batch, all placed
\* immediately before the storyboard node's runNode, or at the end of the batch
\* when it has no runNode.
C17_StoryboardReferenceLinking ==
  [][pc = "link" => LinkEffect(tool_calls, tool_calls', StoryboardImageLabel(tool_calls))]_vars

\* linking took three of four eligible canvas images and put them before the
\* runNode of the storyboard node
C17_Witness ==
  /\ pc = "chain"
  /\ Cardinality({i \in Indices(canvas_context) :
                    canvas_context[i].status = "success"
                      /\ canvas_context[i].label \in {"character-A", "U"}}) = 4
  /\ Len(proposed) = 2
  /\ Targets(proposed[2], "storyboard-S")
  /\ Len(tool_calls) = 5
  /\ Targets(tool_calls[5], "storyboard-S")

\* a createNode of an image whose label or prompt describes a storyboard grid
IsStoryboardHintedCreate(c) ==
  IsCreate(c) /\ ~c.raw /\ c.type = "image" /\ HintIsStoryboard(c.label, c.prompt)

\* the batch creates a storyboard-grid image that a connectNodes can name
CreatesLabelledStoryboardGrid(batch) ==
  \E i \in Indices(batch) : IsStoryboardHintedCreate(batch[i]) /\ batch[i].label # ""

\* the batch is the batch before with a createNode of a composeVideo node and a
\* connectNodes from a storyboard image of the batch to that node appended
ChainAppended(before, after) ==
  /\ Len(after) = Len(before) + 2
  /\ SubSeq(after, 1, Len(before)) = before
  /\ LET create == after[Len(before) + 1]
         connect == after[Len(before) + 2]
     IN /\ IsCreate(create) /\ create.type = "composeVideo" /\ create.label # ""
        /\ IsConnect(connect) /\ connect.tgt = create.label
        /\ \E i \in Indices(before) :
             /\ IsStoryboardHintedCreate(before[i])
             /\ before[i].label = connect.src

\* C18: the auto-chaining pass appends exactly one createNode of a composeVideo
\* node immediately followed by one connectNodes from the storyboard image to it
\* when the batch creates a storyboard-grid image (with a label) and no
\* composeVideo node, and leaves the batch as it is in every other case.
C18_AutoChainIff ==
  [][pc = "chain" =>
       IF CreatesLabelledStoryboardGrid(tool_calls) /\ ~HasComposeVideo(tool_calls)
         THEN ChainAppended(tool_calls, tool_calls')
         ELSE tool_calls' = tool_calls]_vars

(***************************************************************************)
(* General reference continuity.                                           *)
(***************************************************************************)
\* a canvas node that is a successful image whose label names no storyboard
IsSuccessfulPlainImage(n) ==
  n.kind \in ImageKinds /\ n.status = "success" /\ ~AnyIn(StoryboardLabelKws, n.label)

\* the label of the last node of the canvas among those at the positions S
LastLabelAmong(S) ==
  IF S = {} THEN "" ELSE canvas_context[CHOOSE i \in S : \A j \in S : j <= i].label

\* the last successful, non-storyboard image of the canvas snapshot
LastSuccessfulImage ==
  LastLabelAmong({i \in Indices(canvas_context) : IsSuccessfulPlainImage(canvas_context[i])})

\* the last one of them that has a label and an image
LastSuccessfulImageWithUrl ==
  LastLabelAmong({i \in Indices(canvas_context) :
                    /\ IsSuccessfulPlainImage(canvas_context[i])
                    /\ canvas_context[i].label # ""
                    /\ canvas_context[i].imageUrl # ""})

\* the connectNodes calls of the batch from src into the node L
ConnectsInto(batch, src, L) ==
  {p \in Indices(batch) : IsConnect(batch[p]) /\ batch[p].src = src /\ batch[p].tgt = L}

\* the labels (an unlabelled node has the label "") of the non-storyboard image
\* nodes the batch creates and connects nothing into
CreatedWithoutInbound(batch) ==
  {batch[i].label : i \in {j \in Indices(batch) :
     /\ IsCreate(batch[j]) /\ ~batch[j].raw /\ batch[j].type = "image"
     /\ ~HintIsStoryboard(batch[j].label, batch[j].prompt)
     /\ ~\E p \in Indices(batch) : IsConnect(batch[p]) /\ batch[p].tgt = batch[j].label}}

\* after is before with one connectNodes from src into each node of needs inserted
ConnectsInserted(before, after, src, needs) ==
  /\ Len(after) = Len(before) + Cardinality(needs)
  /\ SelectSeq(after, LAMBDA c : c \in Range(before)) = before
  /\ \A L \in needs :
       Cardinality(ConnectsInto(after, src, L)) =
         Cardinality(ConnectsInto(before, src, L)) + 1

RecognisedRole(role_id) == role_id \in RoleIds \/ RoleNamed(role_id) # ""

\* C20: the active role emitted by select_role and by answer finalization is
\* always an id of the role registry, and it is the default role when the
\* decision's role id is not one the registry recognises.
C20_ActiveRoleInRegistry ==
  pc # "select_role" =>
    /\ active_role \in RoleIds
    /\ ~RecognisedRole(decoded.role_id) => active_role = DEFAULT_ROLE_ID

\* a turn has ended whose role decision named a role that is not in the registry
C20_Witness ==
  /\ pc = "END"
  /\ results = 1
  /\ decoded.origin = "parsed"
  /\ decoded.role_id = "wizard"
  /\ active_role = DEFAULT_ROLE_ID

(***************************************************************************)
(* Fallback of the role decision.                                          *)
(***************************************************************************)
\* the text the decoder tried to parse: what its last request returned
DecodedText ==
  IF provider_log = <<>> \/ provider_log[Len(provider_log)] = "raise"
    THEN "" ELSE provider_log[Len(provider_log)]

\* the decoder has fallen back on the text of a role decision
RoleFallback ==
  /\ pc = "decoded"
  /\ decode_schema = "RoleDecision"
  /\ ~ParsesAs("RoleDecision", DecodedText)

\* C21 as stated: an unparseable role-decision text that contains the display
\* name of a role R resolves to R, whatever other role the text also mentions.
C21_FallbackResolvesNamedRole ==
  RoleFallback => \A role \in RoleNamesIn(DecodedText) : decoded.role_id = role

\* C21 amended: it resolves to the first role, in registry order, whose id or
\* display name occurs in the text; so to R when the text mentions no role that
\* precedes R in the registry.
C21_FallbackResolvesFirstMentioned ==
  RoleFallback =>
    \A i \in 1..Len(RoleRegistry) :
      (/\ RoleRegistry[i] \in RoleIdsIn(DecodedText) \cup RoleNamesIn(DecodedText)
       /\ \A j \in 1..(i - 1) :
            RoleRegistry[j] \notin RoleIdsIn(DecodedText) \cup RoleNamesIn(DecodedText))
        => decoded.role_id = RoleRegistry[i]

\* the text names the storyteller and carries the id of the art director, who
\* comes first in the registry
C21_Witness ==
  /\ RoleFallback
  /\ DecodedText = "prose-Storyteller-art_director"
  /\ decoded.origin = "fallback"
  /\ decoded.role_id = "art_director"

(***************************************************************************)
(* Role selection: failures.                                               *)
(***************************************************************************)
\* the requests of a role selection gave no text that parses: none was made, the
\* last one raised, or its text does not parse
RoleRequestFailed(log) ==
  \/ log = <<>>
  \/ log[Len(log)] = "raise"
  \/ ~ParsesAs("RoleDecision", log[Len(log)])

\* C22: select_role always returns (no exception leaves it, whatever the provider
\* and whether or not the key is set), and when the request failed or its output
\* did not parse it returns the default role with a synthetic fallback reason.
C22_RoleSelectionNeverRaises ==
  [][pc = "select_role" =>
       /\ pc' = "kb_retrieve"
       /\ RoleRequestFailed(provider_log') =>
            /\ active_role' = DEFAULT_ROLE_ID
            /\ decoded'.reason \in {"fallback-error", "fallback-parse"}]_vars

(***************************************************************************)
(* Default of allow_canvas_tools.                                          *)
(***************************************************************************)
\* the role decision of the turn carries no boolean for allow_canvas_tools: the
\* request failed, its text did not parse, or the decision omits the field
AllowNotRecovered ==
  /\ pc # "select_role"
  /\ decode_schema = "RoleDecision"
  /\ RoleRequestFailed(provider_log) \/ DecodedText = "json-role-no-allow"

\* C23: when the role decoder recovered no boolean for allow_canvas_tools, the
\* flag of the turn is true and the supervisor gate does not fire (the batch is
\* not emptied by it and its holding message is not the reply).
C23_AllowDefaultsToTrue ==
  AllowNotRecovered =>
    /\ allow_canvas_tools = "True"
    /\ content.body # "holding-msg"
    /\ quick_replies # "gate"

\* a turn whose role request raised twice has kept the generator's batch, and one
\* whose decision omitted the field
C23_Witness ==
  /\ Done
  /\ AllowNotRecovered
  /\ provider_log = <<"raise", "raise">>
  /\ proposed # <<>>
  /\ gen_text = Text("", "none")
  /\ tool_calls # <<>>

(***************************************************************************)
(* Stream reducer.                                                         *)
(***************************************************************************)
\* the tool calls of the model's streams: <<call id, item id>>
StreamCalls == {<<"c1", "i1">>, <<"c2", "i2">>}

\* the chunk is an event of the call: an item event with its call id, or an
\* argument event with its item id
EventOf(chunk, call) ==
  \/ chunk.type \in ItemTypes /\ chunk.call_id = call[1]
  \/ chunk.type \in {"response.function_call_arguments.delta",
                     "response.function_call_arguments.done"} /\ chunk.item_id = call[2]

\* the argument string the first n chunks give the call: a delta is appended, a
\* done event (or an item event that carries arguments) replaces the string
RECURSIVE ArgumentsSent(_, _)
ArgumentsSent(n, call) ==
  IF n = 0 THEN <<>>
  ELSE LET chunk == stream[n]
           before == ArgumentsSent(n - 1, call)
       IN IF ~EventOf(chunk, call) THEN before
          ELSE IF chunk.type = "response.function_call_arguments.delta"
            THEN Append(before, chunk.delta)
          ELSE IF chunk.arguments # <<>> THEN chunk.arguments
          ELSE before

\* the chunks the loop has handled: all that were taken, less the one that raised
Handled == IF handle = "failed" \/ (pc = "collected" /\ handle = "open") THEN read - 1 ELSE read

\* C24: whatever the order in which the events of a tool call arrive, once the
\* stream has told the call id of the item, all of them are in one record keyed
\* by the call id, whose argument string is what the deltas and done events
\* give in arrival order; no record is keyed by the item id.
C24_OneRecordPerCall ==
  (pc = "collected" /\ WithTools) =>
    \A call \in StreamCalls :
      (\E n \in 1..Handled : stream[n].type \in ItemTypes /\ stream[n].call_id = call[1])
        => /\ \A i \in Indices(tool_calls_by_id) : tool_calls_by_id[i].id # call[2]
           /\ \E i \in Indices(tool_calls_by_id) :
                /\ tool_calls_by_id[i].id = call[1]
                /\ tool_calls_by_id[i].arguments = ArgumentsSent(Handled, call)

\* the tool call the result must hold for a record
ToolCallOf(record) ==
  [id |-> record.id, name |-> record.name,
   arguments |->
     IF IsBlankString(record.arguments) THEN [kind |-> "object", value |-> <<>>]
     ELSE IF IsValidJson(record.arguments)
       THEN [kind |-> "object", value |-> <<"{k:", "v}">>]
     ELSE [kind |-> "string", value |-> record.arguments]]

\* C25: the result holds a tool call for a record exactly when the record has a
\* non-empty name, in the order of the records; its arguments are the parsed
\* object when the string is valid JSON, the empty object when it is empty or
\* blank, and the raw string unchanged when it is not valid JSON.
C25_ResultOfRecords ==
  (pc = "collected" /\ WithTools) =>
    tool_calls =
      [i \in 1..Len(SelectSeq(tool_calls_by_id, LAMBDA r : r.name # "")) |->
         ToolCallOf(SelectSeq(tool_calls_by_id, LAMBDA r : r.name # "")[i])]

\* a result that holds a call with parsed arguments next to a call whose
\* arguments did not parse, a record without name having been left out
C25_Witness ==
  /\ pc = "collected"
  /\ WithTools
  /\ \E i \in Indices(tool_calls_by_id) : tool_calls_by_id[i].name = ""
  /\ \E i \in Indices(tool_calls) :
       tool_calls[i].arguments = [kind |-> "string", value |-> <<"{k:">>]
  /\ \E i \in Indices(tool_calls) : tool_calls[i].arguments.kind = "object"

(***************************************************************************)
(* Generation step: requests and provider errors.                          *)
(***************************************************************************)
\* the replies that tell the user the answer could not be generated
ErrorReplies == {"err-config", "err-provider", "err-runtime"}

\* C26: the answer step sends one tool-calling request (none without the key) and
\* no second one, returns without raising, and when the provider failed, at the
\* request or while the stream was read, its reply is an error message.
C26_ProviderErrorBecomesReply ==
  [][pc = "direct_answer" =>
       /\ pc' = "END"
       /\ gen_requests' = IF api_key THEN 1 ELSE 0
       /\ (handle' = "failed" \/ llm_error' = "OpenAIError")
            => content'.body \in ErrorReplies]_vars

(***************************************************************************)
(* Actions block.                                                          *)
(***************************************************************************)
\* the text holds a complete actions block: a marker, a payload, a closing fence
HasCompleteBlock(text) ==
  \E i \in Indices(text), j \in Indices(text) :
    /\ i < j
    /\ text[i].kind = "mark"
    /\ text[j].kind = "fence"
    /\ \A k \in (i + 1)..(j - 1) : text[k].kind \notin {"mark", "fence"}

WellFormed(item) == Stripped(item.label) # "" /\ Stripped(item.input) # ""

\* the quick replies come, in order, from well-formed entries of one payload of
\* the text
TakenInOrderFrom(replies, text) ==
  \E p \in Indices(text) :
    /\ text[p].kind = "json"
    /\ LET good == SelectSeq(text[p].actions, WellFormed)
       IN /\ Len(replies) <= Len(good)
          /\ \A i \in Indices(replies) :
               /\ replies[i].label = Stripped(good[i].label)
               /\ replies[i].input = good[i].input

\* C27: the quick replies taken from an actions block are at most 6, each has a
\* non-empty label and a non-empty input, and they keep the block's order; a
\* text that holds a complete actions block comes out without one, whether or
\* not its payload is valid JSON.
C27_ActionsExtracted ==
  pc = "extracted" =>
    /\ quick_replies # <<>> =>
         /\ Len(quick_replies) <= 6
         /\ \A i \in Indices(quick_replies) : WellFormed(quick_replies[i])
         /\ TakenInOrderFrom(quick_replies, gen_text)
    /\ HasCompleteBlock(gen_text) => ~HasCompleteBlock(content)

(***************************************************************************)
(* Citation substitution.                                                  *)
(***************************************************************************)
\* the gathered sources whose short URL occurs in the generated text
Referenced ==
  {sources_gathered[i] :
     i \in {j \in Indices(sources_gathered) :
              Occurs(sources_gathered[j].short_url, gen_text)}}

\* C28: the sources retained are exactly the gathered sources whose short URL
\* occurs in the generated text, also when one short URL begins another or a
\* canonical URL contains another source's short URL; when none occurs the
\* text is unchanged and no source is retained.
C28_RetainedAreReferenced ==
  pc = "cited" =>
    /\ Range(unique_sources) = Referenced
    /\ Referenced = {} => content = gen_text /\ unique_sources = <<>>

(***************************************************************************)
(* Stream handle.                                                          *)
(***************************************************************************)
\* C29: when a collecting function returns, the stream handle is not left
\* open: the loop drained it, or the stream ended with its own error, or it
\* was closed; this holds after an error in processing one chunk too.
C29_HandleNotLeftOpen ==
  pc = "collected" => handle \in {"drained", "failed", "closed"}

(***************************************************************************)
(* Missing credentials.                                                    *)
(***************************************************************************)
\* C30: a turn whose provider key is missing ends, under either provider, with
\* the fixed missing-credentials message and without a request to the model;
\* and that message is the reply only when the key is missing.
C30_MissingKeyBecomesReply ==
  /\ (~api_key /\ pc \in {"END", "aborted"}) =>
       /\ pc = "END"
       /\ content.body = "err-config"
       /\ gen_requests = 0
  /\ (pc = "END" /\ content.body = "err-config") => ~api_key

(***************************************************************************)
(* Retrieval.                                                              *)
(***************************************************************************)
\* the response is a JSON result without a usable answer and without sources
EmptyRagResult ==
  /\ rag_response.outcome = "json"
  /\ Stripped(rag_response.answer) = ""
  /\ rag_response.sources = <<>>

\* C31: a retrieval response that holds no usable answer and no sources gives
\* an empty result: the step ends without error and adds no research result
\* and no source to the turn.
C31_EmptyResponseAddsNothing ==
  (pc = "direct_answer" /\ EmptyRagResult) =>
    web_research_result = <<>> /\ sources_gathered = <<>>

(***************************************************************************)
(* Structured decoder: requests.                                           *)
(***************************************************************************)
\* the schema-constrained request ended in a provider error or in a text that
\* does not parse as the schema
FirstAttemptFailed ==
  /\ provider_log # <<>>
  /\ \/ provider_log[1] = "raise"
     \/ ~ParsesAs(decode_schema, provider_log[1])

\* C32: a decode makes at most two requests, and when the schema-constrained
\* request ends in a provider error or in text that does not parse it makes
\* exactly one more, in plain mode, before the fallback constructor applies.
C32_OneRetryOnErrorOrParseFailure ==
  pc \in {"decoded", "aborted"} =>
    /\ Len(provider_log) <= 2
    /\ decoded.requests = Len(provider_log)
    /\ FirstAttemptFailed => Len(provider_log) = 2

(***************************************************************************)
(* composeVideo prompt synthesis.                                          *)
(***************************************************************************)
\* the config carries one of the structured storyboard fields
CarriesStructuredField(cfg) ==
  cfg.duration # 0 \/ cfg.style # "" \/ cfg.characters.is_list \/ cfg.shots.is_list

\* C33: after normalization a composeVideo config that had no non-empty prompt
\* and carries any structured storyboard field (duration, style, character
\* list, shot list) has a non-empty prompt; a config that had a non-empty prompt
\* is unchanged.
C33_StructuredConfigGetsPrompt ==
  pc = "coerced" =>
    \A i \in Indices(proposed) :
      /\ (IsBlankPrompt(proposed[i].config.prompt) /\ CarriesStructuredField(proposed[i].config))
           => ~IsBlankPrompt(tool_calls[i].config.prompt)
      /\ ~IsBlankPrompt(proposed[i].config.prompt) => tool_calls[i] = proposed[i]

\* the structured fields of the config yield no content: no metadata, no style,
\* no line from the character list and none from the shot list
YieldsNoContent(cfg) ==
  /\ cfg.duration = 0
  /\ cfg.style = ""
  /\ \A k \in Indices(cfg.characters.items) : cfg.characters.items[k] \in {"bad", "empty"}
  /\ \A k \in Indices(cfg.shots.items) : cfg.shots.items[k] = "bad"

\* C34: when the structured fields yield no content, synthesis returns the
\* existing freeform prompt-like field (prompt, videoPrompt) if one is
\* non-empty, and otherwise nothing, so that the config is left unchanged.
C34_NoContentFallsBackToFreeform ==
  pc = "coerced" =>
    \A i \in Indices(proposed) :
      LET cfg == proposed[i].config
      IN (IsBlankPrompt(cfg.prompt) /\ YieldsNoContent(cfg)
            /\ (cfg.shots.is_list \/ cfg.characters.is_list)) =>
           IF ~IsBlankPrompt(cfg.videoPrompt)
             THEN tool_calls[i].config.prompt = cfg.videoPrompt
             ELSE tool_calls[i] = proposed[i]

(***************************************************************************)
(* General reference continuity: placement.                                *)
(***************************************************************************)
\* the connectNodes at position p of the batch comes after the createNode of its
\* target, with no runNode of the target between the two
PlacedAfterCreateBeforeRun(batch, p) ==
  \E q \in 1..(p - 1) :
    /\ IsCreate(batch[q])
    /\ batch[q].label = batch[p].tgt
    /\ \A r \in (q + 1)..(p - 1) : ~(IsRun(batch[r]) /\ batch[r].nodeId = batch[p].tgt)

\* C35: every connectNodes that general reference continuity inserts is placed
\* after the createNode of its target and before the target's runNode, also
\* when the batch creates two or more image nodes.
C35_ContinuityConnectPlacement ==
  [][(pc = "continuity" /\ pc' # "passes_raised") =>
       \A p \in Indices(tool_calls') :
         (IsConnect(tool_calls'[p]) /\ tool_calls'[p] \notin Range(tool_calls))
           => PlacedAfterCreateBeforeRun(tool_calls', p)]_vars

(***************************************************************************)
(* Error descriptor and batch.                                             *)
(***************************************************************************)
\* C36: a final result that carries an error descriptor has an empty mutation
\* batch, also when the error was raised by a post-generation pass after tool
\* calls were collected.
C36_ErrorResultHasNoBatch ==
  (pc = "END" /\ llm_error # "none") => tool_calls = <<>>

(***************************************************************************)
(* Stream reducer: order of the result.                                    *)
(***************************************************************************)
\* the position of the first handled item event that carries the call id
FirstSeen(call_id) ==
  Least({n \in 1..Handled : stream[n].type \in ItemTypes /\ stream[n].call_id = call_id})

\* C37: the stream reducer returns at most one tool call per call id, and the
\* tool calls are in the order in which their call ids were first seen in the
\* stream, however the events of different calls interleave.
C37_OneCallPerIdInFirstSeenOrder ==
  (pc = "collected" /\ WithTools) =>
    \A i \in Indices(tool_calls), j \in Indices(tool_calls) :
      /\ tool_calls[i].id = tool_calls[j].id => i = j
      /\ i < j => FirstSeen(tool_calls[i].id) < FirstSeen(tool_calls[j].id)

\* the events of the second call arrived between those of the first, and the
\* result holds the first call before the second
C37_Witness ==
  /\ pc = "collected"
  /\ WithTools
  /\ Len(tool_calls) = 2
  /\ tool_calls[1].id = "c1"
  /\ tool_calls[2].id = "c2"
  /\ \E n \in 1..Handled :
       /\ n > FirstSeen("c2")
       /\ stream[n].type = "response.function_call_arguments.delta"
       /\ stream[n].item_id = "i1"

(***************************************************************************)
(* Open-ended story-continuation request.                                  *)
(***************************************************************************)
\* C38: when the latest user message is an open-ended story-continuation
\* suggestion request and the generated text holds no actions-block marker,
\* every tool call the generator proposed is discarded: the final batch is
\* empty whatever allow_canvas_tools is.
C38_SuggestionRequestDropsBatch ==
  (pc = "END" /\ IsStorySuggestionRequest(last_user_text) /\ ~HasActionsMarker(gen_text))
    => tool_calls = <<>>

\* such a turn on which the router allowed canvas tools and the generator
\* proposed a call
C38_Witness ==
  /\ pc = "END"
  /\ IsStorySuggestionRequest(last_user_text)
  /\ ~HasActionsMarker(gen_text)
  /\ allow_canvas_tools = "True"
  /\ proposed # <<>>
  /\ tool_calls = <<>>
  /\ content.body = "directions-msg"

(***************************************************************************)
(* Storyboard references: ranking.                                         *)
(***************************************************************************)
\* the eligible canvas positions, highest score first; among equal scores the
\* earlier position first (earliest = TRUE) or the later one first
RECURSIVE RankedPositions(_, _, _)
RankedPositions(S, sb, earliest) ==
  IF S = {} THEN <<>>
  ELSE LET b == CHOOSE i \in S : \A j \in S :
                  \/ RefScore(canvas_context[j].label) < RefScore(canvas_context[i].label)
                  \/ /\ RefScore(canvas_context[j].label) = RefScore(canvas_context[i].label)
                     /\ IF earliest THEN i <= j ELSE j <= i
       IN <<canvas_context[b].label>> \o RankedPositions(S \ {b}, sb, earliest)

\* the first 3 labels of that ranking that the batch has not yet connected into
\* the storyboard node sb
ReferencesToConnect(batch, sb, earliest) ==
  LET ranked == RankedPositions({i \in Indices(canvas_context) :
                                   RefEligible(canvas_context[i], sb)}, sb, earliest)
      top == SubSeq(ranked, 1, IF Len(ranked) < 3 THEN Len(ranked) ELSE 3)
  IN SelectSeq(top, LAMBDA l : <<l, sb>> \notin ConnectedPairs(batch))

\* the sources of the connectNodes that linking has inserted, in batch order
InsertedReferenceSources(batch) ==
  LET refs == SelectSeq(batch, LAMBDA c : c.origin = "auto_ref")
  IN [i \in Indices(refs) |-> refs[i].src]

\* C39 as stated: the references linked are the 3 highest-scoring eligible
\* canvas images, and eligible nodes with the same score are ranked in their
\* canvas insertion order.
C39_ReferencesRankedStable ==
  [][(pc = "link" /\ pc' = "chain" /\ StoryboardImageLabel(tool_calls) # "") =>
       InsertedReferenceSources(tool_calls') =
         ReferencesToConnect(tool_calls, StoryboardImageLabel(tool_calls), TRUE)]_vars

\* C39 amended: the references linked are the 3 highest-scoring eligible canvas
\* images, and among eligible nodes with the same score the one inserted later
\* is ranked first.
C39_ReferencesRankedLatestFirst ==
  [][(pc = "link" /\ pc' = "chain" /\ StoryboardImageLabel(tool_calls) # "") =>
       InsertedReferenceSources(tool_calls') =
         ReferencesToConnect(tool_calls, StoryboardImageLabel(tool_calls), FALSE)]_vars

\* linking connected X before U on a canvas that holds U before X, both with
\* the same score
C39_Witness ==
  /\ pc = "chain"
  /\ Len(canvas_context) = 2
  /\ canvas_context[1].label = "U"
  /\ canvas_context[2].label = "X"
  /\ InsertedReferenceSources(tool_calls) = <<"X", "U">>

(***************************************************************************)
(* Excerpt of the storyboard prompt.                                       *)
(***************************************************************************)
\* C40: the excerpt of the storyboard's own prompt that auto-chaining appends to
\* the video prompt is at most 1200 characters long, however long the
\* storyboard prompt is.
C40_ExcerptAtMost1200 ==
  pc = "excerpted" => TextLen(tool_calls[Len(tool_calls)].excerpt) <= 1200

=============================================================================
